---- MODULE Spec2Model ----
(***************************************************************************)
(* State-machine model of the frame image pipeline: the tag-set library    *)
(* (package tags) and the scanner (package imgproc), checked with TLC.     *)
(***************************************************************************)
EXTENDS Integers, Sequences, FiniteSets, TLC

(***************************************************************************)
(* Part 1.  package tags: tag sets are sequences of tag IDs; the canonical  *)
(* form is strictly ascending.                                              *)
(***************************************************************************)

\* Largest tag ID drawn for the inputs of the tag-rule specification.
MaxTag == 4

RECURSIVE InsertSorted(_, _)
\* sort.Sort on Tags (Less is t[i] < t[j]): insertion of one element.
InsertSorted(s, x) ==
    IF s = <<>> THEN <<x>>
    ELSE IF x <= Head(s) THEN <<x>> \o s
    ELSE <<Head(s)>> \o InsertSorted(Tail(s), x)

RECURSIVE SortTags(_)
SortTags(t) ==
    IF t = <<>> THEN <<>> ELSE InsertSorted(SortTags(Tail(t)), Head(t))

RECURSIVE DropAdjacentDups(_)
\* The duplicate-removal loop of Tags.Fix over the sorted slice.
DropAdjacentDups(t) ==
    IF Len(t) < 2 THEN t
    ELSE IF t[1] = t[2] THEN DropAdjacentDups(Tail(t))
    ELSE <<t[1]>> \o DropAdjacentDups(Tail(t))

\* Tags.Fix: sort, then remove duplicates.
Fix(t) == IF Len(t) <= 1 THEN t ELSE DropAdjacentDups(SortTags(t))

\* Tags.Equal: same length and element-wise equal.
TagsEqual(t, r) ==
    /\ Len(t) = Len(r)
    /\ \A i \in 1..Len(t) : t[i] = r[i]

RECURSIVE HasFrom(_, _, _)
HasFrom(t, want, i) ==
    IF i > Len(t) THEN FALSE
    ELSE IF t[i] = want THEN TRUE
    ELSE IF t[i] > want THEN FALSE
    ELSE HasFrom(t, want, i + 1)

\* Tags.Has: linear scan that stops once past the wanted ID.
Has(t, want) == IF want = 0 THEN FALSE ELSE HasFrom(t, want, 1)

\* An Add that appends the tag and leaves the list unsorted.
AddUnsorted(t, toAdd) ==
    IF toAdd = 0 THEN t
    ELSE IF Has(t, toAdd) THEN t
    ELSE Append(t, toAdd)

\* Tags.Add: ignore 0 and tags already there; else append and sort.
Add(t, toAdd) ==
    IF toAdd = 0 THEN t
    ELSE IF Has(t, toAdd) THEN t
    ELSE SortTags(Append(t, toAdd))

RECURSIVE CombineNew(_, _, _, _, _)
\* The two-pointer loop of Tags.Combine: the tags of r missing from t.
CombineNew(t, r, lft, rgt, acc) ==
    IF lft > Len(t) \/ rgt > Len(r)
    THEN acc \o SubSeq(r, rgt, Len(r))
    ELSE IF t[lft] > r[rgt] THEN CombineNew(t, r, lft, rgt + 1, Append(acc, r[rgt]))
    ELSE IF r[rgt] > t[lft] THEN CombineNew(t, r, lft + 1, rgt, acc)
    ELSE CombineNew(t, r, lft + 1, rgt + 1, acc)

\* A Combine that appends the missing tags and skips Fix.
CombineNoFix(t, r) ==
    IF Len(t) = 0 THEN r
    ELSE IF Len(r) = 0 THEN t
    ELSE t \o CombineNew(t, r, 1, 1, <<>>)

\* Tags.Combine.
Combine(t, r) ==
    IF Len(t) = 0 THEN r
    ELSE IF Len(r) = 0 THEN t
    ELSE LET new == CombineNew(t, r, 1, 1, <<>>)
         IN  IF Len(new) > 0 THEN Fix(t \o new) ELSE t

\* The set of IDs held by a tag sequence.
TagSet(t) == {t[i] : i \in 1..Len(t)}

\* A tag sequence is canonical: strictly ascending, hence duplicate-free.
Canonical(t) == \A i \in 1..(Len(t) - 1) : t[i] < t[i + 1]

RECURSIVE SetToTags(_)
\* The canonical sequence of a finite set of IDs.
SetToTags(S) ==
    IF S = {} THEN <<>>
    ELSE LET m == CHOOSE x \in S : \A y \in S : x <= y
         IN  <<m>> \o SetToTags(S \ {m})

\* trTag flags.
trfAny == "any"
trfAll == "all"
trfNone == "none"

RECURSIVE InsertTr(_, _)
InsertTr(s, x) ==
    IF s = <<>> THEN <<x>>
    ELSE IF x.tag <= Head(s).tag THEN <<x>> \o s
    ELSE <<Head(s)>> \o InsertTr(Tail(s), x)

RECURSIVE SortTr(_)
\* trTags.Sort: by tag ID.
SortTr(t) == IF t = <<>> THEN <<>> ELSE InsertTr(SortTr(Tail(t)), Head(t))

\* MakeTagRule: flag every tag, sort by ID, reject an empty rule and a tag
\* that appears twice.
MakeTagRule(give, any, all, none) ==
    LET trt == SortTr([i \in 1..Len(any) |-> [tag |-> any[i], flag |-> trfAny]]
                   \o [i \in 1..Len(all) |-> [tag |-> all[i], flag |-> trfAll]]
                   \o [i \in 1..Len(none) |-> [tag |-> none[i], flag |-> trfNone]])
        bad == \/ Len(trt) = 0
               \/ \E i \in 2..Len(trt) : trt[i - 1].tag = trt[i].tag
    IN  [ok |-> ~bad,
         Tag |-> IF bad THEN 0 ELSE give,
         trTags |-> IF bad THEN <<>> ELSE trt,
         hasAny |-> ~bad /\ Len(any) > 0,
         hasAll |-> ~bad /\ Len(all) > 0,
         hasNone |-> ~bad /\ Len(none) > 0]

RECURSIVE GiveLoop(_, _, _, _, _)
\* The matching loop of TagRule.Give and the decisions after it.
GiveLoop(tr, t, trLoc, tLoc, hasAny) ==
    LET trt == tr.trTags
        onlyAny == tr.hasAny /\ ~tr.hasAll /\ ~tr.hasNone
    IN  IF trLoc > Len(trt) \/ tLoc > Len(t)
        THEN IF tr.hasAny /\ hasAny THEN TRUE
             ELSE IF tr.hasAll THEN TRUE
             ELSE FALSE
        ELSE IF trt[trLoc].tag > t[tLoc] THEN GiveLoop(tr, t, trLoc, tLoc + 1, hasAny)
        ELSE IF t[tLoc] > trt[trLoc].tag
             THEN IF trt[trLoc].flag = trfAll THEN FALSE
                  ELSE GiveLoop(tr, t, trLoc + 1, tLoc, hasAny)
        ELSE IF trt[trLoc].flag = trfAny
             THEN IF onlyAny THEN TRUE
                  ELSE GiveLoop(tr, t, trLoc + 1, tLoc + 1, TRUE)
        ELSE IF trt[trLoc].flag = trfNone THEN FALSE
        ELSE GiveLoop(tr, t, trLoc + 1, tLoc + 1, hasAny)

\* TagRule.Give.
Give(tr, t) ==
    IF Len(tr.trTags) < 1 THEN FALSE
    ELSE IF Len(t) < 1
         THEN IF tr.hasAny \/ tr.hasAll THEN FALSE
              ELSE IF tr.hasNone THEN TRUE
              ELSE FALSE
    ELSE GiveLoop(tr, t, 1, 1, FALSE)


(***************************************************************************)
(* Part 2.  Text: file names and sidecar contents are sequences of          *)
(* one-character strings.                                                   *)
(***************************************************************************)

NL == "\n"
SP == " "

\* unicode.IsSpace for the characters used here.
IsSpace(c) == c \in {SP, NL, "\t", "\r"}

\* strings.ToLower, one character.
LowerChar(c) ==
    CASE c = "S" -> "s"
      [] c = "M" -> "m"
      [] c = "J" -> "j"
      [] c = "P" -> "p"
      [] c = "G" -> "g"
      [] c = "T" -> "t"
      [] c = "X" -> "x"
      [] OTHER -> c

ToLower(w) == [i \in 1..Len(w) |-> LowerChar(w[i])]

RECURSIVE TrimLeft(_)
TrimLeft(w) == IF w # <<>> /\ IsSpace(Head(w)) THEN TrimLeft(Tail(w)) ELSE w

RECURSIVE TrimRight(_)
TrimRight(w) ==
    IF w # <<>> /\ IsSpace(w[Len(w)]) THEN TrimRight(SubSeq(w, 1, Len(w) - 1)) ELSE w

\* strings.TrimSpace.
TrimSpace(w) == TrimRight(TrimLeft(w))

\* The names a directory entry can have in this model, as character sequences.
Chars(name) ==
    CASE name = "x.jpg" -> <<"x", ".", "j", "p", "g">>
      [] name = "x.jpg.txt" -> <<"x", ".", "j", "p", "g", ".", "t", "x", "t">>
      [] name = "x.txt" -> <<"x", ".", "t", "x", "t">>
      [] name = "y.jpg" -> <<"y", ".", "j", "p", "g">>
      [] name = "y.jpg.txt" -> <<"y", ".", "j", "p", "g", ".", "t", "x", "t">>
      [] name = "x" -> <<"x">>
      [] OTHER -> <<>>

AllNames == {"x.jpg", "x.jpg.txt", "x.txt", "y.jpg", "y.jpg.txt", "x"}

\* The name spelled by a character sequence ("" when it is none of AllNames).
NameOf(w) == IF \E n \in AllNames : Chars(n) = w
             THEN CHOOSE n \in AllNames : Chars(n) = w
             ELSE ""

\* filepath.Ext: the suffix that starts at the last dot, empty without a dot.
Ext(w) ==
    LET dots == {i \in 1..Len(w) : w[i] = "."}
    IN  IF dots = {} THEN <<>>
        ELSE SubSeq(w, CHOOSE i \in dots : \A j \in dots : j <= i, Len(w))

RECURSIVE getFileTypeC(_)
\* getFileType on characters: <<1, "">> image, <<2, image>> sidecar, <<0, "">> neither.
getFileTypeC(w) ==
    IF Len(w) < 5 THEN <<0, <<>>>>
    ELSE LET ext == ToLower(Ext(w))
         IN  IF ext \in {<<".", "j", "p", "g">>, <<".", "j", "p", "e", "g">>,
                         <<".", "g", "i", "f">>, <<".", "p", "n", "g">>}
             THEN <<1, <<>>>>
             ELSE IF ext = <<".", "t", "x", "t">>
                  THEN LET nfile == SubSeq(w, 1, Len(w) - 4)
                       IN  IF getFileTypeC(nfile)[1] = 1 THEN <<2, nfile>>
                           ELSE <<0, <<>>>>
             ELSE <<0, <<>>>>

\* A file type that pairs x.txt with x.jpg: the sidecar named by the stem.
getFileTypeByStem(name) ==
    CASE name \in {"x.jpg", "y.jpg"} -> <<1, "">>
      [] name \in {"x.txt", "x.jpg.txt"} -> <<2, "x.jpg">>
      [] name = "y.jpg.txt" -> <<2, "y.jpg">>
      [] OTHER -> <<0, "">>

\* getFileType on the names of the model.
getFileType(name) ==
    LET r == getFileTypeC(Chars(name)) IN <<r[1], NameOf(r[2])>>

\* Longest tag loadTagFile accepts, in characters.
MaxTagLen == 100

\* Tag IDs the interner holds for the two named tags.
MountainId == 301
SunId == 302
\* IDs of words too long for the positional numbering below.
LongIdBase == 400
\* Longest word numbered positionally.
MaxEncLen == 5

RECURSIVE Encode(_)
\* An injective numbering of the words over {s, m} (any other letter counts 3).
Encode(w) ==
    IF w = <<>> THEN 0
    ELSE 4 * Encode(SubSeq(w, 1, Len(w) - 1))
         + (CASE w[Len(w)] = "s" -> 1 [] w[Len(w)] = "m" -> 2 [] OTHER -> 3)

\* TagManager.Get: lower-case, trim, look the name up.  The word "z" stands for
\* a name the interner answers with the invalid ID 0.
tmGet(in) ==
    LET w == TrimSpace(ToLower(in))
    IN  CASE w = <<"s", "u", "n">> -> SunId
          [] w = <<"m", "o", "u", "n", "t", "a", "i", "n">> -> MountainId
          [] w = <<"z">> -> 0
          [] Len(w) > MaxEncLen -> LongIdBase + Len(w)
          [] OTHER -> Encode(w)

RECURSIVE ReadTags(_, _, _)
\* The read loop of loadTagFile / LoadTagFile: ReadString('\n') until EOF; the
\* text after the last newline arrives together with io.EOF and is dropped by
\* the break.
ReadTags(content, pos, newTags) ==
    LET nls == {i \in pos..Len(content) : content[i] = NL}
    IN  IF nls = {} THEN newTags
        ELSE LET nl == CHOOSE i \in nls : \A j \in nls : i <= j
                 line == TrimSpace(SubSeq(content, pos, nl))
                 tag == tmGet(line)
             IN  IF line = <<>> \/ Len(line) > MaxTagLen
                 THEN ReadTags(content, nl + 1, newTags)
                 ELSE IF tag = 0 THEN ReadTags(content, nl + 1, newTags)
                 ELSE ReadTags(content, nl + 1, Add(newTags, tag))

\* The tags loadTagFile computes from a sidecar's content.
LoadTags(content) == Fix(ReadTags(content, 1, <<>>))


(***************************************************************************)
(* Part 3.  The scanner (package imgproc): one base whose tree is the root  *)
(* "." and the directory "a" with image and sidecar files.                  *)
(***************************************************************************)

VARIABLES
    disk,       \* the base's tree: directories and the files of "a", with mtimes
    clock,      \* the file system's clock (mtimes are in milliseconds)
    bc,         \* the base's baseCache
    store,      \* the external store: paths and files tables, their sequences
    imgcache,   \* the content-addressed cache directory: file name -> state
    run,        \* per checkBase goroutine: "idle" or "running"
    last,       \* what the most recent checkBase call did
    faults,     \* I/O and store failures injected so far
    edits,      \* changes made to the tree so far
    ruleT,      \* the tag rule under test (tag-rule specification)
    sideT,      \* the sidecar under test (sidecar specification)
    cm,         \* the Merger: its hash map and the store's tables (merge specifications)
    yc,         \* the configuration watcher (watcher specification)
    stage       \* a stage's configuration and closed flag (stage specifications)

vars == <<disk, clock, bc, store, imgcache, run, last, faults, edits, ruleT, sideT, cm, yc, stage>>
scanVars == <<disk, clock, bc, store, imgcache, run, last, faults, edits>>

\* Bounds of the scanner specification.
MaxPasses == 3
MaxEdits == 2
MaxFaults == 1
MaxRestarts == 1
MaxEvents == 2

\* checkBase goroutines that may be started for the base.
Goroutines == {1, 2}

EmptyMap == [x \in {} |-> 0]
Put(f, k, v) == [x \in DOMAIN f \cup {k} |-> IF x = k THEN v ELSE f[x]]
Del(f, k) == [x \in DOMAIN f \ {k} |-> f[x]]

\* emptyTime, the zero time.Time.
emptyTime == 0

\* Update bits of fileCache.updated and pathCache.updated.
upFileTS == "upFileTS"
upFileCT == "upFileCT"
upFileHS == "upFileHS"
upSideTS == "upSideTS"
upSideTG == "upSideTG"
upPathTG == "upPathTG"
upPathTS == "upPathTS"
upPathFI == "upPathFI"

\* Image files a directory can hold, and the bodies they can have: P and Q decode,
\* B does not.
ImageNames == {"x.jpg", "y.jpg"}
Bodies == {"P", "Q", "B"}
Decodable(body) == body # "B"
\* hex.EncodeToString(hash.Sum(nil)) of a body.
HashOf(body) == CASE body = "P" -> "aa01" [] body = "Q" -> "bb02" [] OTHER -> "cc03"

\* Sidecar contents used in the scanner specification.
SunMountain ==
    <<"s", "u", "n", NL, SP, SP, "m", "o", "u", "n", "t", "a", "i", "n", SP, NL, NL>>
SunOnly == <<"s", "u", "n", NL>>
NoTags == <<NL>>
\* The tree holds a sidecar's content by name.
Sidecars == {"SM", "SO", "NT"}
SidecarText(body) ==
    CASE body = "SM" -> SunMountain [] body = "SO" -> SunOnly [] OTHER -> NoTags

\* nextLoop.
LoopFloor == 10
LoopCeil == 50000000
nextLoop(old) == IF old < LoopFloor \/ old > LoopCeil THEN LoopFloor ELSE old + 1

\* ---- the tree ----

DirExists(d, path) == path \in DOMAIN d.dirs
\* fs.ReadDir: entries in ascending name order; "." holds the directory "a",
\* "a" holds the files.
NameOrder == <<"a", "x.jpg", "x.jpg.txt", "x.txt", "y.jpg", "y.jpg.txt">>
ReadDir(d, path) ==
    LET here == IF path = "." THEN (DOMAIN d.dirs) \ {"."} ELSE DOMAIN d.files
        idx == {i \in 1..Len(NameOrder) : NameOrder[i] \in here}
        RECURSIVE Build(_)
        Build(S) == IF S = {} THEN <<>>
                    ELSE LET m == CHOOSE i \in S : \A j \in S : i <= j
                         IN  <<NameOrder[m]>> \o Build(S \ {m})
    IN  Build(idx)

\* ---- the in-memory cache ----

NewFileCache ==
    [FileTS |-> emptyTime, SideTS |-> emptyTime, SideTG |-> <<>>, CTags |-> <<>>,
     Hash |-> "", fileError |-> FALSE, updated |-> {}, loopF |-> 0, loopS |-> 0,
     disabled |-> FALSE, id |-> 0]

NewPathCache(inheritTags) ==
    [Changed |-> emptyTime, Tags |-> inheritTags, Files |-> EmptyMap,
     disabled |-> FALSE, id |-> 0, updated |-> {upPathTG}, loop |-> 0]

\* co.Bases[base].Paths[path].Tags: no path has tags of its own configured.
ConfPathTags(path) == <<>>

\* getPathCache: the cache's Paths after the call, and whether it failed.
getPathCache(P, d, loop, path, inheritTags, inherit) ==
    LET pc0 == IF path \in DOMAIN P THEN P[path] ELSE NewPathCache(inheritTags)
        pc1 == [pc0 EXCEPT !.loop = loop]
        ptime == IF DirExists(d, path) THEN d.dirs[path] ELSE emptyTime
        pc2 == IF ptime # pc1.Changed
               THEN [pc1 EXCEPT !.Changed = ptime, !.updated = @ \cup {upPathTS}]
               ELSE pc1
        cp == ConfPathTags(path)
        inh == inherit \/ Len(cp) > 0
        itags == IF Len(cp) > 0 THEN cp ELSE inheritTags
        pc3 == IF inh /\ ~TagsEqual(itags, pc2.Tags)
               THEN [pc2 EXCEPT !.updated = @ \cup {upPathTG}, !.Tags = itags]
               ELSE pc2
    IN  IF DirExists(d, path)
        THEN [P |-> Put(P, path, pc3), err |-> FALSE]
        ELSE [P |-> Put(P, path, pc1), err |-> TRUE]

\* getFileCache: the pathCache after the call (it cannot fail).
getFileCache(pc, file, modTime) ==
    LET fc0 == IF file \in DOMAIN pc.Files THEN pc.Files[file] ELSE NewFileCache
        with(fc) == [pc EXCEPT !.Files = Put(pc.Files, file, fc)]
    IN  IF fc0.loopF = pc.loop THEN with(fc0)
        ELSE IF modTime = emptyTime THEN with(fc0)
        ELSE LET fc1 == [fc0 EXCEPT !.loopF = pc.loop]
             IN  IF modTime = fc1.FileTS THEN with(fc1)
                 ELSE [pc EXCEPT
                         !.Files = Put(pc.Files, file,
                                       [fc1 EXCEPT !.FileTS = modTime,
                                                   !.updated = @ \cup {upFileTS},
                                                   !.fileError = FALSE]),
                         !.updated = @ \cup {upPathFI}]

\* loadTagFile: the pathCache after the call, and whether it failed.  openFails
\* says that opening the sidecar fails in this call.
loadTagFile(pc, image, modTime, content, openFails) ==
    LET with(q, fc) == [q EXCEPT !.Files = Put(q.Files, image, fc)]
        Read(pcB, fc1, newTags) ==
            IF openFails THEN [pc |-> with(pcB, fc1), err |-> TRUE]
            ELSE IF ~TagsEqual(fc1.SideTG, newTags)
                 THEN [pc |-> with(pcB, [fc1 EXCEPT !.SideTG = newTags,
                                                    !.updated = @ \cup {upSideTG}]),
                       err |-> FALSE]
                 ELSE [pc |-> with(pcB, fc1), err |-> FALSE]
        Seen(pcA, fc0) ==
            IF modTime = fc0.SideTS THEN [pc |-> with(pcA, fc0), err |-> FALSE]
            ELSE Read([pcA EXCEPT !.updated = @ \cup {upPathFI}],
                      [fc0 EXCEPT !.SideTS = modTime, !.updated = @ \cup {upSideTS}],
                      LoadTags(content))
        Got(pcA) == Seen(pcA, [pcA.Files[image] EXCEPT !.loopS = pc.loop])
    IN  Got(getFileCache(pc, image, emptyTime))


\* What can go wrong in one pass: nothing, the open of one sidecar, the k-th
\* call to the store (a statement or a commit), or the encode of a cache file.
NoFault == [kind |-> "none"]
MaxDbCalls == 5
FaultChoices ==
    {[kind |-> "open", name |-> n] : n \in {"x.jpg.txt", "y.jpg.txt"}}
    \cup {[kind |-> "db", at |-> k] : k \in 1..MaxDbCalls}
    \cup {[kind |-> "encode"]}

RECURSIVE checkBasePath(_, _, _, _, _, _)
\* checkBasePath: the cache's Paths after walking the entries of `path` (and,
\* recursively, its new or all sub-directories), and whether the walk failed.
checkBasePath(P, d, loop, path, full, fault) ==
    LET entries == ReadDir(d, path)
        RECURSIVE Walk(_, _)
        Walk(Q, i) ==
            IF i > Len(entries) THEN [P |-> Q, err |-> FALSE]
            ELSE LET name == entries[i]
                     Below(sub) == IF sub.err THEN sub ELSE Walk(sub.P, i + 1)
                     Into(g) == IF g.err THEN g
                                ELSE Below(checkBasePath(g.P, d, loop, name, full, fault))
                     Tagged(r) == IF r.err THEN [P |-> Put(Q, path, r.pc), err |-> TRUE]
                                  ELSE Walk(Put(Q, path, r.pc), i + 1)
                     Typed(ft) ==
                         IF ft[1] = 1
                         THEN Walk(Put(Q, path,
                                       getFileCache(Q[path], name, d.files[name].ts)),
                                   i + 1)
                         ELSE IF ft[1] = 2
                         THEN Tagged(loadTagFile(Q[path], ft[2], d.files[name].ts,
                                                 SidecarText(d.files[name].body),
                                                 fault = [kind |-> "open", name |-> name]))
                         ELSE Walk(Q, i + 1)
                 IN  IF name \in DOMAIN d.dirs
                     THEN \* file.IsDir(): npath is the entry's own name under "."
                          IF ~full /\ name \in DOMAIN Q THEN Walk(Q, i + 1)
                          ELSE Into(getPathCache(Q, d, loop, name, Q[path].Tags, TRUE))
                     ELSE Typed(getFileType(name))
    IN  IF ~DirExists(d, path) THEN [P |-> P, err |-> TRUE] ELSE Walk(P, 1)

\* checkPathPartial.
checkPathPartial(P, d, loop, path, fault) ==
    LET seen(pc) == [pc EXCEPT !.Files =
                        [f \in DOMAIN pc.Files |->
                            [pc.Files[f] EXCEPT
                                !.loopF = pc.loop,
                                !.loopS = IF pc.Files[f].SideTS # emptyTime
                                          THEN pc.loop ELSE @]]]
        Got(g) ==
            IF g.err THEN g
            ELSE IF g.P[path].updated \cap {upPathTG, upPathTS} = {}
                 THEN [P |-> Put(g.P, path, seen(g.P[path])), err |-> FALSE]
            ELSE checkBasePath(g.P, d, loop, path, FALSE, fault)
    IN  Got(getPathCache(P, d, loop, path, <<>>, FALSE))

\* sort.Strings over the cache's path keys.
SortedPaths(P) == SelectSeq(<<".", "a">>, LAMBDA p : p \in DOMAIN P)

RECURSIVE PartialWalk(_, _, _, _, _, _)
\* The partial scan of checkBase: checkPathPartial for every path known at its
\* start, in sorted order, stopping at the first failure.
PartialWalk(P, d, loop, paths, i, fault) ==
    IF i > Len(paths) THEN [P |-> P, err |-> FALSE]
    ELSE LET Checked(r) == IF r.err THEN r
                           ELSE PartialWalk(r.P, d, loop, paths, i + 1, fault)
         IN  Checked(checkPathPartial(P, d, loop, paths[i], fault))

\* The full scan of checkBase: getPathCache(".") and the recursive walk.
FullWalk(P, d, loop, baseTags, fault) ==
    LET Got(g) == IF g.err THEN g ELSE checkBasePath(g.P, d, loop, ".", TRUE, fault)
    IN  Got(getPathCache(P, d, loop, ".", baseTags, TRUE))


\* ---- the content-addressed cache ----

\* <cache>/<h[0]>/<h[1]>/<hash>.<ext>, and the same with the .tmp suffix.
CacheName(hash, ext) == <<hash, ext>>
CacheFileNames == {CacheName(HashOf(b), e) : b \in Bodies, e \in {"png", "webp", "webp.tmp"}}

\* setFileHash: the fileCache and the cache directory afterwards, whether the
\* path has to be flagged upPathFI, and whether the call failed.  encFails says
\* that imaging.Encode fails in this call.
setFileHash(fc, name, d, cf, encFails) ==
    LET body == d.files[name].body
        tHash == HashOf(body)
        fName == CacheName(tHash, "png")
        fc1 == [fc EXCEPT !.Hash = tHash, !.updated = @ \cup {upFileHS}]
    IN  IF name \notin DOMAIN d.files
        THEN [fc |-> fc, cf |-> cf, fi |-> FALSE, err |-> TRUE]
        ELSE IF tHash = fc.Hash
        THEN [fc |-> fc, cf |-> cf, fi |-> FALSE, err |-> FALSE]
        ELSE IF cf[fName] # "absent"
        THEN [fc |-> fc1, cf |-> cf, fi |-> TRUE, err |-> FALSE]
        ELSE IF ~Decodable(body)
        THEN [fc |-> fc1, cf |-> cf, fi |-> TRUE, err |-> TRUE]
        ELSE IF encFails
        THEN [fc |-> fc1, cf |-> [cf EXCEPT ![fName] = "partial"], fi |-> TRUE, err |-> TRUE]
        ELSE [fc |-> fc1, cf |-> [cf EXCEPT ![fName] = "valid"], fi |-> TRUE, err |-> FALSE]

\* ---- the external store ----

\* The k-th call to the store in this pass fails.
DbFails(q, fault) == fault.kind = "db" /\ fault.at = q + 1

PathIds(w) == {w.paths[p].id : p \in DOMAIN w.paths}
PathWithId(w, id) == CHOOSE p \in DOMAIN w.paths : w.paths[p].id = id
FileIds(w) == {w.files[k].id : k \in DOMAIN w.files}
FileWithId(w, id) == CHOOSE k \in DOMAIN w.files : w.files[k].id = id

\* paths-insert: an upsert on (bid, name) that enables the row and returns pid.
PathsInsert(w, name, ts, tags) ==
    IF name \in DOMAIN w.paths
    THEN [w |-> [w EXCEPT !.paths[name] =
                    [@ EXCEPT !.pathts = ts, !.tags = tags, !.enabled = TRUE]],
          id |-> w.paths[name].id]
    ELSE [w |-> [w EXCEPT !.paths = Put(w.paths, name,
                                        [id |-> w.nextPid, enabled |-> TRUE,
                                         pathts |-> ts, tags |-> tags]),
                          !.nextPid = @ + 1],
          id |-> w.nextPid]

\* paths-update: by pid; no row, no change.
PathsUpdate(w, id, ts, tags) ==
    IF id \in PathIds(w)
    THEN [w EXCEPT !.paths[PathWithId(w, id)] = [@ EXCEPT !.pathts = ts, !.tags = tags]]
    ELSE w

\* paths-disable: by pid.
PathsDisable(w, id) ==
    IF id \in PathIds(w)
    THEN [w EXCEPT !.paths[PathWithId(w, id)] = [@ EXCEPT !.enabled = FALSE]]
    ELSE w

FileRow(id, fc) ==
    [id |-> id, enabled |-> TRUE, filets |-> fc.FileTS, hash |-> fc.Hash,
     sidets |-> fc.SideTS, sidetags |-> fc.SideTG, tags |-> fc.CTags]

\* files-insert: an upsert on (pid, name) that enables the row and returns fid.
FilesInsert(w, pid, name, fc) ==
    LET k == <<pid, name>>
    IN  IF k \in DOMAIN w.files
        THEN [w |-> [w EXCEPT !.files[k] = FileRow(w.files[k].id, fc)],
              id |-> w.files[k].id]
        ELSE [w |-> [w EXCEPT !.files = Put(w.files, k, FileRow(w.nextFid, fc)),
                              !.nextFid = @ + 1],
              id |-> w.nextFid]

\* files-update: by fid, leaving enabled as it is.
FilesUpdate(w, id, fc) ==
    IF id \in FileIds(w)
    THEN [w EXCEPT !.files[FileWithId(w, id)] =
             [FileRow(id, fc) EXCEPT !.enabled = w.files[FileWithId(w, id)].enabled]]
    ELSE w

\* files-disable: by fid.
FilesDisable(w, id) ==
    IF id \in FileIds(w)
    THEN [w EXCEPT !.files[FileWithId(w, id)] = [@ EXCEPT !.enabled = FALSE]]
    ELSE w

\* updateDBPath inside a transaction whose view of the store is w: the view, the
\* pathCache and the count of store calls afterwards, and whether it failed.
updateDBPath(w, pc, path, loop, q, fault) ==
    LET same == [w |-> w, pc |-> pc, q |-> q, err |-> FALSE]
        ins == PathsInsert(w, path, pc.Changed, pc.Tags)
    IN  IF pc.loop # loop
        THEN IF pc.id = 0
             THEN [same EXCEPT !.pc = [pc EXCEPT !.disabled = TRUE], !.err = TRUE]
             ELSE IF pc.disabled THEN [same EXCEPT !.err = TRUE]
             ELSE IF DbFails(q, fault) THEN [same EXCEPT !.q = q + 1, !.err = TRUE]
             ELSE [w |-> PathsDisable(w, pc.id), pc |-> [pc EXCEPT !.disabled = TRUE],
                   q |-> q + 1, err |-> FALSE]
        ELSE IF pc.id = 0
        THEN IF DbFails(q, fault) THEN [same EXCEPT !.q = q + 1, !.err = TRUE]
             ELSE [w |-> ins.w, pc |-> [pc EXCEPT !.id = ins.id], q |-> q + 1,
                   err |-> FALSE]
        ELSE IF pc.updated \cap {upPathTG, upPathTS} # {}
        THEN IF DbFails(q, fault) THEN [same EXCEPT !.q = q + 1, !.err = TRUE]
             ELSE [same EXCEPT !.w = PathsUpdate(w, pc.id, pc.Changed, pc.Tags),
                               !.q = q + 1]
        ELSE same

\* updateDBFile inside a transaction: the view, the fileCache and the count of
\* store calls afterwards, and whether it failed.  files-insert names a pid the
\* paths table must hold (FOREIGN KEY ( pid ) REFERENCES paths).
updateDBFile(w, pid, fc, name, loop, q, fault) ==
    LET same == [w |-> w, fc |-> fc, q |-> q, err |-> FALSE]
        ins == FilesInsert(w, pid, name, fc)
    IN  IF Len(fc.CTags) = 0 THEN same
        ELSE IF fc.loopF # loop
        THEN IF fc.id = 0
             THEN IF fc.loopS = loop
                  THEN [same EXCEPT !.fc = [fc EXCEPT !.disabled = TRUE]]
                  ELSE [same EXCEPT !.fc = [fc EXCEPT !.disabled = TRUE], !.err = TRUE]
             ELSE IF fc.disabled THEN [same EXCEPT !.err = TRUE]
             ELSE IF DbFails(q, fault) THEN [same EXCEPT !.q = q + 1, !.err = TRUE]
             ELSE [w |-> FilesDisable(w, fc.id), fc |-> [fc EXCEPT !.disabled = TRUE],
                   q |-> q + 1, err |-> FALSE]
        ELSE IF fc.fileError THEN same
        ELSE IF fc.id = 0
        THEN IF DbFails(q, fault) \/ pid \notin PathIds(w)
             THEN [same EXCEPT !.q = q + 1, !.err = TRUE]
             ELSE [w |-> ins.w, fc |-> [fc EXCEPT !.id = ins.id], q |-> q + 1,
                   err |-> FALSE]
        ELSE IF fc.updated \cap {upFileTS, upFileCT, upFileHS, upSideTS, upSideTG} # {}
        THEN IF DbFails(q, fault) THEN [same EXCEPT !.q = q + 1, !.err = TRUE]
             ELSE [same EXCEPT !.w = FilesUpdate(w, fc.id, fc), !.q = q + 1]
        ELSE same


\* A rolled-back transaction leaves the tables as they were; the sequences its
\* inserts drew from are not rewound.
Rollback(st, w) == [st EXCEPT !.nextPid = w.nextPid, !.nextFid = w.nextFid]

\* The files of a pathCache in the order the map iteration `ord` yields them.
FilesIn(pc, ord) == SelectSeq(ord, LAMBDA f : f \in DOMAIN pc.Files)

\* Orders in which a map iteration can yield the files, and the paths.
FirstOrder == <<"x.jpg", "y.jpg">>
FileOrders == {FirstOrder, <<"y.jpg", "x.jpg">>}
PathOrders == {<<".", "a">>, <<"a", ".">>}

\* The orders that differ in effect: one when fewer than two keys are iterated.
FileOrdersOf(P, d) ==
    LET cached == UNION {DOMAIN P[p].Files : p \in DOMAIN P}
        found == {n \in ImageNames : \E f \in DOMAIN d.files : getFileType(f)[2] = n}
    IN  IF ImageNames \subseteq cached \cup found THEN FileOrders
        ELSE {FirstOrder}
PathOrdersOf(P, d) ==
    IF "a" \in DOMAIN P \cup DOMAIN d.dirs THEN PathOrders ELSE {<<".", "a">>}

\* updateDBPF: one transaction for a path and its files.  The cache's Paths,
\* the store and the count of store calls afterwards, and whether it failed.
updateDBPF(P, st, path, loop, q, fault, ord) ==
    LET pc == P[path]
        names == FilesIn(pc, ord)
        RECURSIVE Files(_, _, _, _)
        Files(w, c, i, n) ==
            IF i > Len(names) THEN [w |-> w, pc |-> c, q |-> n, err |-> FALSE]
            ELSE LET Updated(r, c1) ==
                         IF r.err THEN [w |-> r.w, pc |-> c1, q |-> r.q, err |-> TRUE]
                         ELSE Files(r.w, c1, i + 1, r.q)
                     OneFile(r) == Updated(r, [c EXCEPT !.Files[names[i]] = r.fc])
                 IN  OneFile(updateDBFile(w, c.id, c.Files[names[i]], names[i], loop, n,
                                          fault))
        cleared(c) == [c EXCEPT !.updated = {},
                                !.Files = [f \in DOMAIN c.Files |->
                                              [c.Files[f] EXCEPT !.updated = {}]]]
        Commit(r2) ==
            IF r2.err
            THEN [P |-> Put(P, path, r2.pc), st |-> Rollback(st, r2.w), q |-> r2.q,
                  err |-> TRUE]
            ELSE IF DbFails(r2.q, fault)
            THEN [P |-> Put(P, path, r2.pc), st |-> Rollback(st, r2.w), q |-> r2.q + 1,
                  err |-> TRUE]
            ELSE [P |-> Put(P, path, cleared(r2.pc)), st |-> r2.w, q |-> r2.q + 1,
                  err |-> FALSE]
        OnePath(r1) ==
            IF r1.err
            THEN [P |-> Put(P, path, r1.pc), st |-> Rollback(st, r1.w), q |-> r1.q,
                  err |-> TRUE]
            ELSE Commit(Files(r1.w, r1.pc, 1, r1.q))
    IN  IF pc.updated = {}
        THEN [P |-> P, st |-> st, q |-> q, err |-> FALSE]
        ELSE OnePath(updateDBPath(st, pc, path, loop, q, fault))

\* The tags and hash steps checkHashTagsDB takes for the files of a seen path:
\* the pathCache and the cache directory afterwards.
HashTagsPath(pc0, d, cf0, loop, fault, ord) ==
    LET pathTags == upPathTG \in pc0.updated
        names == FilesIn(pc0, ord)
        RECURSIVE Each(_, _, _)
        Each(pc, cf, i) ==
            IF i > Len(names) THEN [pc |-> pc, cf |-> cf]
            ELSE LET n == names[i]
                     fc == pc.Files[n]
                     Hashed(pc1, h) ==
                         Each([pc1 EXCEPT
                                 !.updated = IF h.fi THEN @ \cup {upPathFI} ELSE @,
                                 !.Files[n] = IF h.err
                                              THEN [h.fc EXCEPT !.fileError = TRUE]
                                              ELSE h.fc],
                              h.cf, i + 1)
                     Tagged(fc1, pc1) ==
                         IF Len(fc1.CTags) = 0
                         THEN Each([pc1 EXCEPT !.Files[n] = fc1], cf, i + 1)
                         ELSE IF upFileTS \in fc1.updated \/ fc1.Hash = ""
                         THEN Hashed(pc1, setFileHash(fc1, n, d, cf, fault.kind = "encode"))
                         ELSE Each([pc1 EXCEPT !.Files[n] = fc1], cf, i + 1)
                     Combined(nTags) ==
                         IF (pathTags \/ upSideTG \in fc.updated \/ Len(fc.CTags) = 0)
                            /\ ~TagsEqual(nTags, fc.CTags)
                         THEN Tagged([fc EXCEPT !.CTags = nTags,
                                                !.updated = @ \cup {upFileCT}],
                                     [pc EXCEPT !.updated = @ \cup {upPathFI}])
                         ELSE Tagged(fc, pc)
                 IN  IF fc.loopF # loop THEN Each(pc, cf, i + 1)
                     ELSE Combined(Combine(Combine(<<>>, pc.Tags), fc.SideTG))
    IN  Each(pc0, cf0, 1)

\* checkHashTagsDB: paths in the order `pord`, files in the orders `ord1` (tags
\* and hashes) and `ord2` (store), stopping at the first failed updateDBPF.
checkHashTagsDB(P0, d, st0, cf0, loop, fault, pord, ord1, ord2) ==
    LET paths == SelectSeq(pord, LAMBDA p : p \in DOMAIN P0)
        RECURSIVE Each(_, _, _, _, _)
        Each(P, st, cf, q, i) ==
            IF i > Len(paths) THEN [P |-> P, st |-> st, cf |-> cf, q |-> q, err |-> FALSE]
            ELSE LET path == paths[i]
                     Stored(u, cf1) ==
                         IF u.err
                         THEN [P |-> u.P, st |-> u.st, cf |-> cf1, q |-> u.q, err |-> TRUE]
                         ELSE Each(u.P, u.st, cf1, u.q, i + 1)
                     Update(P1, cf1) ==
                         Stored(updateDBPF(P1, st, path, loop, q, fault, ord2), cf1)
                     Seen(ht) == Update(Put(P, path, ht.pc), ht.cf)
                 IN  IF P[path].loop = loop
                     THEN Seen(HashTagsPath(P[path], d, cf, loop, fault, ord1))
                     ELSE Update(P, cf)
    IN  Each(P0, st0, cf0, 0, 1)

\* cleanCache.
cleanCache(P, loop) ==
    LET keepFile(fc) == fc.loopF = loop \/ (fc.id # 0 /\ ~fc.disabled)
        swept(pc) == [pc EXCEPT !.Files =
                         [f \in {g \in DOMAIN pc.Files : keepFile(pc.Files[g])} |->
                             pc.Files[f]]]
        keepPath(pc) == \/ pc.loop = loop
                        \/ DOMAIN swept(pc).Files # {}
                        \/ (pc.id # 0 /\ ~pc.disabled)
    IN  [p \in {r \in DOMAIN P : keepPath(P[r])} |-> swept(P[p])]

\* checkBase once the advisory flag is held: the baseCache, the store and the
\* cache directory afterwards, how far the pass got, and its store calls.
checkBase(b, d, st, cf, fault, pord, ord1, ord2) ==
    LET loop == nextLoop(b.loop)
        force == b.force \/ "." \notin DOMAIN b.Paths
        b1 == [b EXCEPT !.loop = loop, !.force = force]
        b2 == [b1 EXCEPT !.force = FALSE]
        Stored(db) ==
            IF db.err
            THEN [bc |-> [b2 EXCEPT !.Paths = db.P], st |-> db.st, cf |-> db.cf,
                  result |-> "store", q |-> db.q, full |-> force]
            ELSE [bc |-> [b2 EXCEPT !.Paths = cleanCache(db.P, loop)], st |-> db.st,
                  cf |-> db.cf, result |-> "done", q |-> db.q, full |-> force]
        Walked(walk) ==
            IF walk.err
            THEN [bc |-> [b1 EXCEPT !.Paths = walk.P], st |-> st, cf |-> cf,
                  result |-> "walk", q |-> 0, full |-> force]
            ELSE Stored(checkHashTagsDB(walk.P, d, st, cf, loop, fault, pord, ord1, ord2))
    IN  Walked(IF force THEN FullWalk(b.Paths, d, loop, b.Tags, fault)
               ELSE PartialWalk(b.Paths, d, loop, SortedPaths(b.Paths), 1, fault))


\* loadCache: the cache's Paths built from the enabled rows of the store.
loadCache(st) ==
    LET on == {p \in DOMAIN st.paths : st.paths[p].enabled}
        rowsOf(pid) == {k \in DOMAIN st.files : k[1] = pid /\ st.files[k].enabled}
        fileOf(row) == [NewFileCache EXCEPT !.id = row.id, !.Hash = row.hash,
                                            !.FileTS = row.filets, !.SideTS = row.sidets,
                                            !.SideTG = Fix(row.sidetags),
                                            !.CTags = Fix(row.tags)]
        filesOf(pid) == [n \in {k[2] : k \in rowsOf(pid)} |-> fileOf(st.files[<<pid, n>>])]
    IN  [p \in on |-> [NewPathCache(Fix(st.paths[p].tags)) EXCEPT
                          !.id = st.paths[p].id, !.Changed = st.paths[p].pathts,
                          !.Files = filesOf(st.paths[p].id), !.updated = {}]]

\* A compare-and-swap that succeeds whatever the flag holds.
CasAlways(flag, old) == TRUE

\* atomic.CompareAndSwapUint32(&bc.checkRun, old, new) succeeds.
CompareAndSwap(flag, old) == flag = old

\* ---- the scanner's state machine ----

\* Tags configured on the base.
BaseTag == 3

File(ts, body) == [ts |-> ts, body |-> body]
\* Trees the base can hold when the program starts (every mtime is 1), each
\* with the tags configured on the base.
TreeOf(files) == [dirs |-> [p \in {".", "a"} |-> 1], files |-> files]
InitChoices ==
    { [tags |-> <<>>,
       disk |-> TreeOf([n \in {"x.jpg", "x.txt"} |->
                           IF n = "x.jpg" THEN File(1, "P") ELSE File(1, "SM")])],
      [tags |-> <<>>,
       disk |-> TreeOf([n \in {"x.jpg", "x.jpg.txt"} |->
                           IF n = "x.jpg" THEN File(1, "P") ELSE File(1, "SM")])],
      [tags |-> <<>>,
       disk |-> TreeOf([n \in {"y.jpg.txt"} |-> File(1, "SO")])],
      [tags |-> <<>>,
       disk |-> TreeOf([n \in {"x.jpg", "x.jpg.txt", "y.jpg"} |->
                           IF n = "x.jpg" THEN File(1, "P")
                           ELSE IF n = "y.jpg" THEN File(1, "Q") ELSE File(1, "SO")])],
      [tags |-> <<BaseTag>>,
       disk |-> TreeOf([n \in {"x.jpg", "y.jpg"} |-> File(1, "P")])] }

EmptyStore == [paths |-> EmptyMap, files |-> EmptyMap, nextPid |-> 1, nextFid |-> 1]

ScanInit ==
    /\ \E c \in InitChoices :
          /\ disk = c.disk
          /\ bc = [loop |-> 0, force |-> TRUE, checkRun |-> 0, Tags |-> c.tags,
                   Paths |-> loadCache(EmptyStore)]
    /\ clock = 1
    /\ store = EmptyStore
    /\ imgcache = [f \in CacheFileNames |-> "absent"]
    /\ run = [g \in Goroutines |-> "idle"]
    /\ last = [n |-> 0, result |-> "none", full |-> FALSE, q |-> 0,
               fault |-> NoFault]
    /\ faults = 0
    /\ edits = [n |-> 0, restarts |-> 0]

\* Disturbances so far: changes to the tree, restarts and injected failures.
Events == edits.n + edits.restarts + faults
CanFail == faults < MaxFaults /\ Events < MaxEvents

\* A failure that has something to fail: a sidecar that is there, a store call
\* the undisturbed pass makes, an encode.
Applies(f, d, clean) ==
    CASE f.kind = "open" -> f.name \in DOMAIN d.files
      [] f.kind = "db" -> f.at <= clean.q
      [] OTHER -> TRUE

\* checkBase, the compare-and-swap succeeding: goroutine g holds the flag.
CheckBaseBegin(g) ==
    /\ run[g] = "idle"
    /\ last.n < MaxPasses
    /\ CompareAndSwap(bc.checkRun, 0)
    /\ bc' = [bc EXCEPT !.checkRun = 1]
    /\ run' = [run EXCEPT ![g] = "running"]
    /\ last' = [last EXCEPT !.n = @ + 1]
    /\ UNCHANGED <<disk, clock, store, imgcache, faults, edits, ruleT, sideT, cm, yc, stage>>

\* checkBase, the compare-and-swap failing: "check already running", return.
CheckBaseBusy(g) ==
    /\ run[g] = "idle"
    /\ ~CompareAndSwap(bc.checkRun, 0)
    /\ last' = [last EXCEPT !.result = "busy"]
    /\ UNCHANGED <<disk, clock, bc, store, imgcache, run, faults, edits, ruleT, sideT, cm, yc, stage>>

\* checkBase from bMut.Lock() to its return, the flag released on the way out.
\* The order in which the files are hashed shows only when an encode fails.
CheckBaseRun(g) ==
    /\ run[g] = "running"
    /\ \E pord \in PathOrdersOf(bc.Paths, disk), ord2 \in FileOrdersOf(bc.Paths, disk) :
       \E clean \in {checkBase(bc, disk, store, imgcache, NoFault, pord, FirstOrder,
                               ord2)} :
       \E fault \in {NoFault} \cup {f \in FaultChoices : CanFail /\ Applies(f, disk, clean)},
          ord1 \in FileOrdersOf(bc.Paths, disk) :
       /\ fault.kind # "encode" => ord1 = FirstOrder
       /\ \E r \in {IF fault = NoFault THEN clean
                    ELSE checkBase(bc, disk, store, imgcache, fault, pord, ord1, ord2)} :
              /\ fault # NoFault => r # clean
              /\ bc' = [r.bc EXCEPT !.checkRun = 0]
              /\ store' = r.st
              /\ imgcache' = r.cf
              /\ faults' = IF fault = NoFault THEN faults ELSE faults + 1
              /\ last' = [last EXCEPT !.result = r.result, !.full = r.full,
                                      !.q = r.q, !.fault = fault]
    /\ run' = [run EXCEPT ![g] = "idle"]
    /\ UNCHANGED <<disk, clock, edits, ruleT, sideT, cm, yc, stage>>


\* ---- what happens to the tree between and during scans ----

SidecarNames == {"x.jpg.txt", "y.jpg.txt"}
EditNames == ImageNames \cup {"x.jpg.txt"}
\* What a file is created with, and what it is rewritten with.
CreateWith(name) == IF name \in ImageNames THEN {"P", "B"} ELSE {"SO"}
WriteWith(name) == IF name \in ImageNames THEN {"Q"} ELSE {"NT"}

Edited == /\ \A g \in Goroutines : run[g] = "idle"
          /\ last.result # "edit"
          /\ edits.n < MaxEdits /\ Events < MaxEvents
          /\ clock' = clock + 1
          /\ edits' = [edits EXCEPT !.n = @ + 1]
          /\ last' = [last EXCEPT !.result = "edit"]
          /\ UNCHANGED <<bc, store, imgcache, run, faults, ruleT, sideT, cm, yc, stage>>

\* A file is created in "a": the file and the directory get the current mtime.
CreateFile(name, body) ==
    /\ "a" \in DOMAIN disk.dirs
    /\ name \notin DOMAIN disk.files
    /\ disk' = [disk EXCEPT !.files = Put(disk.files, name, File(clock + 1, body)),
                            !.dirs["a"] = clock + 1]
    /\ Edited

\* A file is removed from "a": the directory gets the current mtime.
RemoveFile(name) ==
    /\ name \in DOMAIN disk.files
    /\ disk' = [disk EXCEPT !.files = Del(disk.files, name), !.dirs["a"] = clock + 1]
    /\ Edited

\* A file is rewritten in place: only the file gets the current mtime.
WriteFile(name, body) ==
    /\ name \in DOMAIN disk.files
    /\ disk' = [disk EXCEPT !.files[name] = File(clock + 1, body)]
    /\ Edited

\* An image is replaced by a copy of itself (written aside and renamed): the
\* file and the directory get the current mtime, the content stays.
RecopyFile(name) ==
    /\ name \in DOMAIN disk.files
    /\ disk' = [disk EXCEPT !.files[name] = File(clock + 1, disk.files[name].body),
                            !.dirs["a"] = clock + 1]
    /\ Edited

\* A sidecar is replaced by a new file of the same name (written aside and
\* renamed): the file and the directory get the current mtime.
ReplaceFile(name, body) ==
    /\ name \in DOMAIN disk.files
    /\ disk' = [disk EXCEPT !.files[name] = File(clock + 1, body),
                            !.dirs["a"] = clock + 1]
    /\ Edited

\* The directory "a" is removed with all it holds.
RemoveDir ==
    /\ "a" \in DOMAIN disk.dirs
    /\ disk' = [dirs |-> [p \in {"."} |-> clock + 1], files |-> EmptyMap]
    /\ Edited

\* The directory "a" is created, empty.
MakeDir ==
    /\ "a" \notin DOMAIN disk.dirs
    /\ disk' = [dirs |-> [p \in {".", "a"} |-> clock + 1], files |-> EmptyMap]
    /\ Edited

Idle == \A g \in Goroutines : run[g] = "idle"

\* The program is stopped and started again: New() loads the cache from the
\* store and forces a full check.
Restart ==
    /\ Idle
    /\ bc.loop # 0
    /\ edits.restarts < MaxRestarts /\ Events < MaxEvents
    /\ bc' = [loop |-> 0, force |-> TRUE, checkRun |-> 0, Tags |-> bc.Tags,
              Paths |-> loadCache(store)]
    /\ edits' = [edits EXCEPT !.restarts = @ + 1]
    /\ last' = [last EXCEPT !.result = "restart"]
    /\ UNCHANGED <<disk, clock, store, imgcache, run, faults, ruleT, sideT, cm, yc, stage>>

ScanNext ==
    \/ \E g \in Goroutines : CheckBaseBegin(g)
    \/ \E g \in Goroutines : CheckBaseBusy(g)
    \/ \E g \in Goroutines : CheckBaseRun(g)
    \/ \E name \in EditNames : \E body \in CreateWith(name) : CreateFile(name, body)
    \/ \E name \in EditNames : RemoveFile(name)
    \/ \E name \in EditNames : \E body \in WriteWith(name) : WriteFile(name, body)
    \/ \E body \in WriteWith("x.jpg.txt") : ReplaceFile("x.jpg.txt", body)
    \/ \E name \in ImageNames : RecopyFile(name)
    \/ RemoveDir
    \/ MakeDir
    \/ Restart

\* The variables of the other specifications, at rest.
RuleParked == ruleT = "none"
SideParked == sideT = "none"
StagesParked == cm = "none" /\ yc = "none" /\ stage = "none"
ScanParked ==
    /\ disk = "none" /\ clock = 0 /\ bc = "none" /\ store = "none"
    /\ run = "none" /\ faults = 0 /\ edits = "none"

Init == ScanInit /\ RuleParked /\ SideParked /\ StagesParked
Next == ScanNext
Spec == Init /\ [][Next]_vars

TypeOK == /\ bc.checkRun \in {0, 1}
          /\ faults \in 0..MaxFaults


(***************************************************************************)
(* Part 4.  The tag-rule specification: every rule over the tags 1..MaxTag  *)
(* against every canonical tag set.                                         *)
(***************************************************************************)

TagIds == 1..MaxTag
\* The tag a rule under test gives.
GiveTag == MaxTag + 1

\* The rule MakeTagRule builds for ruleT's lists.
RuleOf(rt) == MakeTagRule(GiveTag, rt.any, rt.all, rt.none)

RuleInit ==
    /\ \E cls \in [TagIds -> {trfAny, trfAll, trfNone, "absent"}], S \in SUBSET TagIds :
          ruleT = [any |-> SetToTags({i \in TagIds : cls[i] = trfAny}),
                   all |-> SetToTags({i \in TagIds : cls[i] = trfAll}),
                   none |-> SetToTags({i \in TagIds : cls[i] = trfNone}),
                   set |-> SetToTags(S), gave |-> "unset"]
    /\ SideParked /\ ScanParked /\ StagesParked /\ imgcache = "none" /\ last = "none"

\* Give is called on the rule, when MakeTagRule returned one.
GiveStep ==
    /\ ruleT.gave = "unset"
    /\ RuleOf(ruleT).ok
    /\ ruleT' = [ruleT EXCEPT !.gave = IF Give(RuleOf(ruleT), ruleT.set)
                                      THEN "yes" ELSE "no"]
    /\ UNCHANGED <<scanVars, sideT, cm, yc, stage>>

RuleNext == GiveStep
SpecRule == RuleInit /\ [][RuleNext]_vars

(***************************************************************************)
(* Part 5.  The sidecar specification: loadTagFile on every short text and  *)
(* on texts with lines around the length limit.                             *)
(***************************************************************************)

MaxContentLen == 4
SideAlphabet == {"s", "m", "z", SP, NL}
Long(n) == [i \in 1..n |-> "s"]
SideContents ==
    UNION {[1..n -> SideAlphabet] : n \in 0..MaxContentLen}
    \cup {Long(MaxTagLen) \o <<NL>>, Long(MaxTagLen + 1) \o <<NL>>, Long(MaxTagLen),
          <<"s", "u", "n", NL, "m", "o", "u", "n", "t", "a", "i", "n">>,
          SunMountain}

SideInit ==
    /\ \E c \in SideContents : sideT = [content |-> c, read |-> FALSE, tags |-> <<>>]
    /\ RuleParked /\ ScanParked /\ StagesParked /\ imgcache = "none" /\ last = "none"

\* The sidecar of x.jpg is found in a walk: loadTagFile on a new pathCache.
LoadStep ==
    /\ ~sideT.read
    /\ LET pc == [NewPathCache(<<>>) EXCEPT !.loop = LoopFloor]
           r == loadTagFile(pc, "x.jpg", 1, sideT.content, FALSE)
       IN  sideT' = [sideT EXCEPT !.read = TRUE, !.tags = r.pc.Files["x.jpg"].SideTG]
    /\ UNCHANGED <<scanVars, ruleT, cm, yc, stage>>

SideNext == LoadStep
SpecSidecar == SideInit /\ [][SideNext]_vars


(***************************************************************************)
(* Part 6.  The cache-directory specification: the two writers of the       *)
(* content-addressed cache, setFileHash (imgproc) and CacheImageRaw         *)
(* (cmanager), each of whose encodes, creates and renames can fail.         *)
(***************************************************************************)

\* Calls made to the two writers in one run.
MaxWrites == 4

CacheInit ==
    /\ imgcache = [f \in CacheFileNames |-> "absent"]
    /\ last = [n |-> 0, result |-> "none"]
    /\ RuleParked /\ SideParked /\ ScanParked /\ StagesParked

\* setFileHash on a file of content `body` that has no hash yet.
SetFileHashStep(body, encFails) ==
    /\ last.n < MaxWrites
    /\ LET d == TreeOf([n \in {"x.jpg"} |-> File(1, body)])
           r == setFileHash(NewFileCache, "x.jpg", d, imgcache, encFails)
       IN  /\ imgcache' = r.cf
           /\ last' = [n |-> last.n + 1, result |-> IF r.err THEN "hash-failed" ELSE "hash"]
    /\ UNCHANGED <<disk, clock, bc, store, run, faults, edits, ruleT, sideT, cm, yc, stage>>

\* CacheImageRaw on an upload of content `body`; `fails` names the step that
\* fails, if one does.
CacheImageRaw(body, fails) ==
    LET file == CacheName(HashOf(body), "webp")
        tmp == CacheName(HashOf(body), "webp.tmp")
        res(cf, what) == /\ imgcache' = cf
                         /\ last' = [n |-> last.n + 1, result |-> what]
    IN  /\ last.n < MaxWrites
        /\ IF ~Decodable(body) THEN res(imgcache, "raw-failed")
           ELSE IF imgcache[file] # "absent" THEN res(imgcache, "raw")
           ELSE IF fails = "create" THEN res(imgcache, "raw-failed")
           ELSE IF fails = "encode"
                THEN res([imgcache EXCEPT ![tmp] = "partial"], "raw-failed")
           ELSE IF fails = "rename"
                THEN res([imgcache EXCEPT ![tmp] = "valid"], "raw-failed")
           ELSE res([imgcache EXCEPT ![tmp] = "absent", ![file] = "valid"], "raw")
        /\ UNCHANGED <<disk, clock, bc, store, run, faults, edits, ruleT, sideT, cm, yc, stage>>

CacheNext ==
    \/ \E body \in Bodies, encFails \in BOOLEAN : SetFileHashStep(body, encFails)
    \/ \E body \in Bodies, fails \in {"none", "create", "encode", "rename"} :
          CacheImageRaw(body, fails)
SpecCache == CacheInit /\ [][CacheNext]_vars


(***************************************************************************)
(* Part 7.  Properties of the scanner.                                      *)
(***************************************************************************)

Scanning == {g \in Goroutines : run[g] = "running"}

\* The (path, file) pairs with an enabled row in the files table.
EnabledFileRows ==
    {<<PathWithId(store, k[1]), k[2]>> : k \in {r \in DOMAIN store.files : store.files[r].enabled}}

\* The cached files, as (path, file) pairs.
CachedFiles == {<<p, f>> : p \in DOMAIN bc.Paths, f \in AllNames} \cap
               UNION {{<<p, f>> : f \in DOMAIN bc.Paths[p].Files} : p \in DOMAIN bc.Paths}
FileCacheOf(pf) == bc.Paths[pf[1]].Files[pf[2]]

\* The files observed in the latest pass whose combined tag set is not empty.
ObservedTagged ==
    {pf \in CachedFiles : FileCacheOf(pf).loopF = bc.loop /\ Len(FileCacheOf(pf).CTags) > 0}

\* The files table holds a row for the file `pf[2]` of the path `pf[1]`.
RowFor(pf) ==
    /\ pf[1] \in DOMAIN store.paths
    /\ <<store.paths[pf[1]].id, pf[2]>> \in DOMAIN store.files

\* The state a first scan leaves when nothing else has happened.
FirstScanDone == last.n = 1 /\ last.result = "done" /\ Events = 0 /\ Idle

\* The tree holds exactly the image a/x.jpg and, under the name `side`, the
\* sidecar with the lines "sun", "  mountain " and an empty line; the base has
\* no tags configured.
SunMountainTree(side) ==
    /\ bc.Tags = <<>>
    /\ DOMAIN disk.files = {"x.jpg", side}
    /\ disk.files[side].body = "SM"

\* The paths table holds exactly the enabled, untagged rows named in `names`.
PathRowsAre(names) ==
    /\ DOMAIN store.paths = names
    /\ \A p \in names : store.paths[p].enabled /\ store.paths[p].tags = <<>>

\* The files table holds exactly one row: a/x.jpg with tags {mountain, sun}.
OneSunMountainRow ==
    /\ "a" \in DOMAIN store.paths
    /\ DOMAIN store.files = {<<store.paths["a"].id, "x.jpg">>}
    /\ \A k \in DOMAIN store.files :
          store.files[k].enabled /\ store.files[k].tags = <<MountainId, SunId>>

\* C1: a checkBase call that finds the base's flag set returns at once, leaving
\* the cache, the store, the cache directory and every goroutine as they were,
\* and at no time are two scans of the base executing.
C1_AdvisoryLock ==
    [][/\ \A g \in Goroutines :
             CheckBaseBusy(g) => UNCHANGED <<bc, store, imgcache, run, disk>>
       /\ Cardinality(Scanning') <= 1]_vars

\* C1 witness: a call found the flag set while another goroutine was scanning.
C1_Contended == last.result = "busy" /\ Scanning # {}

\* C2: after a pass that ran to completion, the files with an enabled row are
\* exactly the files observed in that pass whose combined tag set is not empty.
C2_EnabledRowsAreObserved ==
    last.result = "done" => EnabledFileRows = ObservedTagged

\* C3 (as stated): after the first scan of a tree holding a/x.jpg and the
\* sidecar a/x.txt, the store holds one path row, "a", and one file row, x.jpg
\* tagged {mountain, sun}.
C3_StemSidecarOnePathRow ==
    FirstScanDone /\ SunMountainTree("x.txt") => PathRowsAre({"a"}) /\ OneSunMountainRow

\* C3 (amended): after the first scan the store holds the two path rows "." and
\* "a"; with the sidecar named a/x.jpg.txt it holds one file row, x.jpg tagged
\* {mountain, sun}, and with the sidecar named a/x.txt it holds no file row.
C3_FirstScanRows ==
    /\ FirstScanDone /\ SunMountainTree("x.jpg.txt")
          => PathRowsAre({".", "a"}) /\ OneSunMountainRow
    /\ FirstScanDone /\ SunMountainTree("x.txt")
          => PathRowsAre({".", "a"}) /\ DOMAIN store.files = {}

\* C3 witness: the first scan of a/x.jpg with a/x.jpg.txt has written the row.
C3_FirstScanWroteRow ==
    FirstScanDone /\ SunMountainTree("x.jpg.txt") /\ OneSunMountainRow

\* C4: between passes, a FileCache has id = 0 exactly when the files table
\* holds no row for it.
C4_IdZeroIffNoRow ==
    Idle => \A pf \in CachedFiles : (FileCacheOf(pf).id = 0) <=> ~RowFor(pf)


\* A checkBase call of goroutine g returns in this step.
PassEnds(g) == run[g] = "running" /\ run'[g] = "idle"

\* The image f of "a" was observed by the previous scan, has a committed and
\* enabled row, and is gone from the tree while another image remains.
RemovedBetweenScans(f) ==
    /\ <<"a", f>> \in CachedFiles
    /\ bc.loop # 0 /\ FileCacheOf(<<"a", f>>).loopF = bc.loop
    /\ RowFor(<<"a", f>>)
    /\ store.files[<<store.paths["a"].id, f>>].enabled
    /\ store.files[<<store.paths["a"].id, f>>].id = FileCacheOf(<<"a", f>>).id
    /\ f \notin DOMAIN disk.files
    /\ \E o \in ImageNames \ {f} : o \in DOMAIN disk.files

\* C5: when an image with a committed, enabled row has been removed from a
\* directory that still holds another image, the next scan, if nothing fails in
\* it, leaves the file's row disabled, the FileCache gone from the cache, and
\* the directory's path row enabled.
C5_RemovedFileDisabled ==
    [][\A g \in Goroutines, f \in ImageNames :
          PassEnds(g) /\ RemovedBetweenScans(f) /\ last'.fault = NoFault
             => /\ ~store'.files[<<store.paths["a"].id, f>>].enabled
                /\ "a" \in DOMAIN bc'.Paths
                /\ f \notin DOMAIN bc'.Paths["a"].Files
                /\ store'.paths["a"].enabled]_vars

\* C6: after a pass that ran to completion, every PathCache and FileCache in
\* the cache was observed in that pass or is marked disabled.
C6_SeenOrDisabled ==
    last.result = "done" =>
        /\ \A p \in DOMAIN bc.Paths : bc.Paths[p].loop = bc.loop \/ bc.Paths[p].disabled
        /\ \A pf \in CachedFiles :
              FileCacheOf(pf).loopF = bc.loop \/ FileCacheOf(pf).disabled

\* C8: while the tree holds the sidecar a/y.jpg.txt and has never held the
\* image a/y.jpg, the files table has no row for y.jpg, and after every pass
\* that ran to completion the cache has no FileCache for it.
C8_OrphanSidecar ==
    edits.n = 0 /\ "y.jpg.txt" \in DOMAIN disk.files /\ "y.jpg" \notin DOMAIN disk.files
       => /\ \A k \in DOMAIN store.files : k[2] # "y.jpg"
          /\ last.result = "done" => <<"a", "y.jpg">> \notin CachedFiles


(***************************************************************************)
(* Part 8.  Properties of the cache directory, of sidecar reading and of    *)
(* tag rules.                                                               *)
(***************************************************************************)

\* C7: no file under a final name of the cache directory, <hash>.png or
\* <hash>.webp, is partly written, whichever writer's encode failed.
C7_FinalNamesComplete ==
    \A f \in CacheFileNames : f[2] \in {"png", "webp"} => imgcache[f] # "partial"

RECURSIVE SplitLines(_)
\* The lines of a text: the pieces between newlines, the piece after the last
\* newline included.
SplitLines(content) ==
    LET nls == {i \in 1..Len(content) : content[i] = NL}
        nl == CHOOSE i \in nls : \A j \in nls : i <= j
    IN  IF nls = {} THEN {content}
        ELSE {SubSeq(content, 1, nl - 1)} \cup SplitLines(SubSeq(content, nl + 1, Len(content)))

\* The canonical set of non-zero IDs interned from every line that is not
\* empty after trimming and is at most MaxTagLen characters long.
ExpectedSideTags(content) ==
    LET kept == {l \in SplitLines(content) :
                    TrimSpace(l) # <<>> /\ Len(TrimSpace(l)) <= MaxTagLen}
    IN  SetToTags({tmGet(l) : l \in kept} \ {0})

\* C9: once a sidecar has been read, the file's sidecar tags are the canonical
\* set of the non-zero IDs of all its non-empty lines of at most 100
\* characters, the last line counted whether or not a newline ends it.
C9_SidecarTagsAllLines ==
    sideT.read => sideT.tags = ExpectedSideTags(sideT.content)

\* The Any/All/None reading of a rule against a tag set.
Fires(rt) ==
    /\ rt.any = <<>> \/ TagSet(rt.any) \cap TagSet(rt.set) # {}
    /\ rt.all = <<>> \/ TagSet(rt.all) \subseteq TagSet(rt.set)
    /\ rt.none = <<>> \/ TagSet(rt.none) \cap TagSet(rt.set) = {}

\* C10: for every rule MakeTagRule builds and every canonical tag set, Give
\* answers true exactly when the rule fires under the Any/All/None reading.
C10_GiveIsAnyAllNone ==
    ruleT.gave # "unset" => (ruleT.gave = "yes" <=> Fires(ruleT))

\* C11: a rule with only None tags fires on a tag set, empty or not, exactly
\* when the set holds none of them.
C11_NoneOnlyFires ==
    ruleT.gave # "unset" /\ ruleT.any = <<>> /\ ruleT.all = <<>> /\ ruleT.none # <<>>
       => (ruleT.gave = "yes" <=> TagSet(ruleT.none) \cap TagSet(ruleT.set) = {})

\* C12: a rule with only All tags fires on a tag set exactly when the set holds
\* every one of them.
C12_AllOnlyFires ==
    ruleT.gave # "unset" /\ ruleT.any = <<>> /\ ruleT.none = <<>> /\ ruleT.all # <<>>
       => (ruleT.gave = "yes" <=> TagSet(ruleT.all) \subseteq TagSet(ruleT.set))


(***************************************************************************)
(* Part 9.  The rule-list specification: TagRules.Apply walks an ordered    *)
(* list of rules over a canonical tag set, one rule per step.               *)
(***************************************************************************)

\* Tags the rules of a list name and give, rules in a list, tags a rule lists.
MaxApplyTag == 3
MaxRules == 2
MaxRuleTags == 2
ApplyTagIds == 1..MaxApplyTag

\* The rule lists' rules: a given tag and at most MaxRuleTags listed tags.
ApplyRules ==
    {[give |-> g,
      any |-> SetToTags({i \in ApplyTagIds : cls[i] = trfAny}),
      all |-> SetToTags({i \in ApplyTagIds : cls[i] = trfAll}),
      none |-> SetToTags({i \in ApplyTagIds : cls[i] = trfNone})] :
        g \in ApplyTagIds,
        cls \in {c \in [ApplyTagIds -> {trfAny, trfAll, trfNone, "absent"}] :
                    Cardinality({i \in ApplyTagIds : c[i] # "absent"}) \in 1..MaxRuleTags}}

\* The rule MakeTagRule builds for a rule of the list.
ListRule(r) == MakeTagRule(r.give, r.any, r.all, r.none)

\* The body of Apply's loop: the rule's tag is added when the rule gives it.
ApplyRule(tr, t) == IF Give(tr, t) THEN Add(t, tr.Tag) ELSE t

\* set: the tags Apply was called on; cur: Apply's t; fired: the tags given by
\* the rules before the last one; rule, gave: the last rule and its outcome.
ApplyInit ==
    /\ \E S \in SUBSET ApplyTagIds :
          ruleT = [set |-> SetToTags(S), cur |-> SetToTags(S), fired |-> {},
                   n |-> 0, rule |-> "none", gave |-> "unset"]
    /\ SideParked /\ ScanParked /\ StagesParked /\ imgcache = "none" /\ last = "none"

\* One pass of Apply's loop, on the list's next rule.
ApplyStep(r) ==
    /\ ruleT.n < MaxRules
    /\ ListRule(r).ok
    /\ ruleT' = [ruleT EXCEPT
                   !.cur = ApplyRule(ListRule(r), ruleT.cur),
                   !.fired = IF ruleT.gave = "yes" THEN @ \cup {ruleT.rule.give} ELSE @,
                   !.n = @ + 1,
                   !.rule = r,
                   !.gave = IF Give(ListRule(r), ruleT.cur) THEN "yes" ELSE "no"]
    /\ UNCHANGED <<scanVars, sideT, cm, yc, stage>>

ApplyNext == \E r \in ApplyRules : ApplyStep(r)
SpecApply == ApplyInit /\ [][ApplyNext]_vars

\* The tags given so far, the last rule's included.
GivenTags == ruleT.fired \cup (IF ruleT.gave = "yes" THEN {ruleT.rule.give} ELSE {})

\* C13: Apply evaluates every rule against the set as extended by the earlier
\* rules that fired, only adds tags (those of the rules that fired), keeps the
\* set canonical, and a rule whose None list names a tag given by an earlier
\* rule that fired does not fire.
C13_ApplyInOrder ==
    ruleT.n > 0 =>
       /\ ruleT.gave = "yes"
             <=> Give(ListRule(ruleT.rule), SetToTags(TagSet(ruleT.set) \cup ruleT.fired))
       /\ TagSet(ruleT.cur) = TagSet(ruleT.set) \cup GivenTags
       /\ Canonical(ruleT.cur)
       /\ TagSet(ruleT.rule.none) \cap ruleT.fired # {} => ruleT.gave = "no"

\* C13 witness: the second rule of a list would fire on the tags Apply was
\* called on, and does not, because the first rule gave a tag of its None list.
C13_LaterRuleHeldBack ==
    /\ ruleT.n = 2 /\ ruleT.gave = "no" /\ ruleT.set # <<>>
    /\ TagSet(ruleT.rule.none) \cap ruleT.fired # {}
    /\ TagSet(ruleT.rule.none) \cap TagSet(ruleT.set) = {}
    /\ Give(ListRule(ruleT.rule), ruleT.set)


(***************************************************************************)
(* Part 10.  The Merger's fold (package cmerge): hashCheck merges the tags  *)
(* of a hash's files and applies the configured rules.                      *)
(***************************************************************************)

RECURSIVE ContainsFrom(_, _, _, _)
\* The two-pointer loop of Tags.Contains.
ContainsFrom(t, r, lft, rgt) ==
    IF lft > Len(t) \/ rgt > Len(r) THEN FALSE
    ELSE IF t[lft] > r[rgt] THEN ContainsFrom(t, r, lft, rgt + 1)
    ELSE IF r[rgt] > t[lft] THEN ContainsFrom(t, r, lft + 1, rgt)
    ELSE TRUE

\* Tags.Contains: t holds at least one tag of r.
Contains(t, r) == IF Len(t) = 0 \/ Len(r) = 0 THEN FALSE ELSE ContainsFrom(t, r, 1, 1)

RECURSIVE Apply(_, _)
\* TagRules.Apply: the rules in sequence, each on the tags the earlier ones left.
Apply(trs, t) == IF trs = <<>> THEN t ELSE Apply(Tail(trs), ApplyRule(Head(trs), t))

\* The orders in which a range over a map with keys S can visit them.
MapOrders(S) == {s \in [1..Cardinality(S) -> S] : \A i, j \in DOMAIN s : i # j => s[i] # s[j]}

\* A fold that takes the tags of the first file the range visits and no more.
CombineFirstFile(files, ord, tgs) ==
    IF ord = <<>> THEN tgs ELSE files[Head(ord)].Tags

RECURSIVE CombineFiles(_, _, _)
\* hashCheck's first loop: the files' tags combined, in the map's order ord.
CombineFiles(files, ord, tgs) ==
    IF ord = <<>> THEN tgs
    ELSE CombineFiles(files, Tail(ord), Combine(tgs, files[Head(ord)].Tags))

\* A hashCache as pollQuery and fullQuery create it.
NewHashCache(hash) ==
    [ID |-> 0, Hash |-> hash, Tags |-> <<>>, Blocked |-> FALSE,
     Files |-> <<>>, Disabled |-> FALSE, Changed |-> FALSE]

\* CMerge.hashCheck on hashCache hc under configuration co; the rule loop is
\* the loop of TagRules.Apply.
hashCheck(hc, co, ord) ==
    IF DOMAIN hc.Files = {}
    THEN IF hc.ID = 0
         THEN [hc |-> hc, err |-> TRUE]
         ELSE [hc |-> [hc EXCEPT !.Changed = TRUE, !.Disabled = TRUE], err |-> FALSE]
    ELSE LET Blocking(h) ==
                 IF Contains(h.Tags, co.BlockTags) # h.Blocked
                 THEN [h EXCEPT !.Changed = TRUE, !.Blocked = ~h.Blocked]
                 ELSE h
             Folded(tgs) ==
                 IF ~TagsEqual(hc.Tags, tgs)
                 THEN Blocking([hc EXCEPT !.Changed = TRUE, !.Tags = tgs])
                 ELSE Blocking(hc)
         IN  [hc |-> Folded(Apply(co.TagRules, CombineFiles(hc.Files, ord, <<>>))),
              err |-> FALSE]

\* Files folded into one hash.
MaxFiles == 2
FileIdsOfHash == 1..MaxFiles

\* Rules that list one tag.
OneTagRules == {r \in ApplyRules : Len(r.any) + Len(r.all) + Len(r.none) = 1}

\* The rule lists of the fold specification.
FoldRuleLists ==
    {<<>>} \cup {<<r>> : r \in ApplyRules}
           \cup {<<r1, r2>> : r1 \in OneTagRules, r2 \in OneTagRules}

\* The family example: tag names and the IDs a tag manager may have given them.
FamilyNames == {"brother", "mother", "father", "sister", "uncle", "aunt", "immediate"}
FamilyIds == {f \in [FamilyNames -> 1..Cardinality(FamilyNames)] :
                 \A a, b \in FamilyNames : a # b => f[a] # f[b]}
FamilyRule(f) ==
    [give |-> f["immediate"],
     any |-> <<f["brother"], f["mother"], f["father"], f["sister"]>>,
     all |-> <<>>,
     none |-> <<f["uncle"], f["aunt"]>>]
FamilyFile(f, fid) == [ID |-> fid, Tags |-> Fix(<<f["brother"], f["mother"]>>)]

\* cm: one hashCache as a query left it, the rules configured, the IDs of the
\* family example's tags when it is the example, and whether hashCheck has run.
FoldInit ==
    /\ \/ \E F \in SUBSET FileIdsOfHash, trs \in FoldRuleLists :
          \E ts \in [F -> SUBSET ApplyTagIds], id \in IF F = {} THEN {0, 1} ELSE {0} :
             cm = [hc |-> [NewHashCache("aa01") EXCEPT
                             !.ID = id,
                             !.Files = [fid \in F |-> [ID |-> fid, Tags |-> SetToTags(ts[fid])]]],
                   rules |-> trs, block |-> <<1>>,
                   family |-> FALSE, names |-> [n \in FamilyNames |-> 0],
                   checked |-> FALSE, err |-> FALSE]
       \/ \E f \in FamilyIds :
             cm = [hc |-> [NewHashCache("aa01") EXCEPT
                             !.Files = [fid \in FileIdsOfHash |-> FamilyFile(f, fid)]],
                   rules |-> <<FamilyRule(f)>>, block |-> <<f["uncle"]>>,
                   family |-> TRUE, names |-> f,
                   checked |-> FALSE, err |-> FALSE]
    /\ RuleParked /\ SideParked /\ ScanParked /\ imgcache = "none" /\ last = "none"
    /\ yc = "none" /\ stage = "none"

\* The configuration hashCheck is handed: the rules as MakeTagRule built them.
FoldConf == [TagRules |-> [i \in DOMAIN cm.rules |-> ListRule(cm.rules[i])],
             BlockTags |-> cm.block]

\* fullMerge and pollMerge call hashCheck on the hashCache.
HashCheckStep ==
    /\ ~cm.checked
    /\ \E ord \in MapOrders(DOMAIN cm.hc.Files) :
       \E r \in {hashCheck(cm.hc, FoldConf, ord)} :
          cm' = [cm EXCEPT !.hc = r.hc, !.err = r.err, !.checked = TRUE]
    /\ UNCHANGED <<scanVars, ruleT, sideT, yc, stage>>

FoldNext == HashCheckStep
SpecFold == FoldInit /\ [][FoldNext]_vars

RECURSIVE RulesOn(_, _)
\* The tag set the rules leave when applied in order to tag set S: a rule's tag
\* joins the set when Give answers true on the set so far.
RulesOn(trs, S) ==
    IF trs = <<>> THEN S
    ELSE RulesOn(Tail(trs), IF Give(Head(trs), SetToTags(S)) THEN S \cup {Head(trs).Tag} ELSE S)

\* The union of the tag sets of the hash's contributing files.
FileTagUnion == UNION {TagSet(cm.hc.Files[fid].Tags) : fid \in DOMAIN cm.hc.Files}

\* C14: after hashCheck on a hash with at least one file, the record's tags are
\* the canonical union of the files' tags plus the tags of the rules that fire
\* in order; in the family example they are brother, mother and immediate.
C14_FoldedTags ==
    cm.checked /\ DOMAIN cm.hc.Files # {} =>
       /\ ~cm.err
       /\ Canonical(cm.hc.Tags)
       /\ TagSet(cm.hc.Tags) = RulesOn(FoldConf.TagRules, FileTagUnion)
       /\ cm.family =>
             cm.hc.Tags = SetToTags({cm.names["brother"], cm.names["mother"],
                                     cm.names["immediate"]})

\* C14 witness: two files tagged brother and mother were folded under the rule
\* immediate, whose tag has an ID between theirs.
C14_FamilyFolded ==
    /\ cm.checked /\ cm.family /\ DOMAIN cm.hc.Files = FileIdsOfHash
    /\ cm.names["brother"] < cm.names["immediate"]
    /\ cm.names["immediate"] < cm.names["mother"]
    /\ Len(cm.hc.Tags) = 3


(***************************************************************************)
(* Part 11.  The Combine specification: Tags.Combine on every pair of       *)
(* canonical tag sets, both ways round.                                     *)
(***************************************************************************)

\* ruleT holds the pair and, once Combine was called, both results.
CombineInit ==
    /\ \E X \in SUBSET TagIds, Y \in SUBSET TagIds :
          ruleT = [x |-> SetToTags(X), y |-> SetToTags(Y),
                   xy |-> <<>>, yx |-> <<>>, done |-> FALSE]
    /\ SideParked /\ ScanParked /\ StagesParked /\ imgcache = "none" /\ last = "none"

\* x.Combine(y) and y.Combine(x).
CombineStep ==
    /\ ~ruleT.done
    /\ ruleT' = [ruleT EXCEPT !.xy = Combine(ruleT.x, ruleT.y),
                              !.yx = Combine(ruleT.y, ruleT.x),
                              !.done = TRUE]
    /\ UNCHANGED <<scanVars, sideT, cm, yc, stage>>

CombineNext == CombineStep
SpecCombine == CombineInit /\ [][CombineNext]_vars

\* C15: Combine of two canonical sets is strictly ascending, holds exactly the
\* tags of either, and is the same whichever set is the receiver.
C15_CombineIsUnion ==
    ruleT.done =>
       /\ Canonical(ruleT.xy)
       /\ TagSet(ruleT.xy) = TagSet(ruleT.x) \cup TagSet(ruleT.y)
       /\ ruleT.xy = ruleT.yx

\* C15 witness: Combine ran on two sets that share a tag and each hold a tag
\* the other lacks, the receiver's last tag above the argument's.
C15_Interleaved ==
    /\ ruleT.done
    /\ TagSet(ruleT.x) \cap TagSet(ruleT.y) # {}
    /\ TagSet(ruleT.x) \ TagSet(ruleT.y) # {}
    /\ TagSet(ruleT.y) \ TagSet(ruleT.x) # {}
    /\ ruleT.x[Len(ruleT.x)] > ruleT.y[Len(ruleT.y)]
    /\ Len(ruleT.xy) > Len(ruleT.x)


(***************************************************************************)
(* Part 12.  The configuration watcher (package yconf) with the Merger's    *)
(* callbacks: a directory of two documents, checked after every edit.       *)
(***************************************************************************)

\* Edits made to the configuration directory, and checks run, in one behaviour.
MaxConfEdits == 2
MaxChecks == 3

\* time.Second and time.Minute, in milliseconds.
Second == 1000
Minute == 60000

\* Dynamic types of the values handed around as interface{}.
tyNil == "nil"
tyConf == "*cmerge.conf"
tyLoaded == "*yconf.loaded"
NilValue == [type |-> tyNil]

NoQueries == [Full |-> "", Poll |-> "", Select |-> "", Insert |-> "", Update |-> "", Disable |-> ""]
AllQueries == [Full |-> "q", Poll |-> "q", Select |-> "q", Insert |-> "q", Update |-> "q", Disable |-> "q"]

\* The documents a configuration file can hold, as yaml decodes them.
EmptyDoc ==
    [decodes |-> TRUE, Database |-> "", Queries |-> NoQueries, BlockTags |-> <<>>,
     TagRules |-> <<>>, PollInterval |-> 0, FullInterval |-> 0]
BaseDoc ==
    [EmptyDoc EXCEPT !.Database = "db1", !.Queries = AllQueries,
                     !.PollInterval = Second, !.FullInterval = Minute]
ConfDocs ==
    {EmptyDoc, BaseDoc,
     [EmptyDoc EXCEPT !.Database = "db2"],
     [EmptyDoc EXCEPT !.BlockTags = << <<"s", "u", "n">> >>,
                      !.TagRules = <<[give |-> 1, any |-> <<2>>, all |-> <<>>, none |-> <<>>]>>],
     [EmptyDoc EXCEPT !.TagRules = <<[give |-> 1, any |-> <<2>>, all |-> <<2>>, none |-> <<>>]>>],
     [EmptyDoc EXCEPT !.PollInterval = Second \div 2],
     [EmptyDoc EXCEPT !.decodes = FALSE]}

\* tags.StringsToTags: intern every name, then Fix.
StringsToTags(in) == Fix([i \in DOMAIN in |-> tmGet(in[i])])

\* CMerge.yconfConvert: the typed configuration of a decoded document.
yconfConvert(in) ==
    LET rules == [i \in DOMAIN in.TagRules |-> ListRule(in.TagRules[i])]
        bad == \/ \E i \in DOMAIN rules : ~rules[i].ok
               \/ in.PollInterval > 0 /\ in.PollInterval < Second
               \/ in.FullInterval > 0 /\ in.FullInterval < Minute
    IN  IF bad THEN [err |-> TRUE, out |-> NilValue]
        ELSE [err |-> FALSE,
              out |-> [type |-> tyConf, Database |-> in.Database, Queries |-> in.Queries,
                       BlockTags |-> IF Len(in.BlockTags) > 0
                                     THEN StringsToTags(in.BlockTags) ELSE <<>>,
                       TagRules |-> rules,
                       PollInterval |-> in.PollInterval,
                       FullInterval |-> in.FullInterval]]

\* One string field of yconfMerge: the later document's value, when it has one.
MergeStr(a, b) == IF a # b /\ b # "" THEN b ELSE a

\* cmerge's yconfMerge: the later document merged into what was loaded so far.
yconfMerge(inA, inB) ==
    IF inA.type # tyConf \/ inB.type # tyConf THEN [err |-> TRUE, out |-> NilValue]
    ELSE [err |-> FALSE,
          out |-> [inA EXCEPT
              !.Database = MergeStr(@, inB.Database),
              !.Queries = [q \in DOMAIN @ |-> MergeStr(@[q], inB.Queries[q])],
              !.BlockTags = IF Len(inB.BlockTags) > 0 /\ ~TagsEqual(@, inB.BlockTags)
                            THEN Combine(@, inB.BlockTags) ELSE @,
              !.TagRules = IF Len(inB.TagRules) > 0 /\ @ # inB.TagRules
                           THEN @ \o inB.TagRules ELSE @,
              !.PollInterval = IF @ # inB.PollInterval /\ inB.PollInterval > 0
                               THEN inB.PollInterval ELSE @,
              !.FullInterval = IF @ # inB.FullInterval /\ inB.FullInterval > 0
                               THEN inB.FullInterval ELSE @]]

\* cmerge's yconfChanged: both arguments must be *conf, else "changed"; then
\* field by field.
yconfChanged(origConfInt, newConfInt) ==
    IF origConfInt.type # tyConf THEN TRUE
    ELSE IF newConfInt.type # tyConf THEN TRUE
    ELSE \/ origConfInt.Database # newConfInt.Database
         \/ origConfInt.Queries # newConfInt.Queries
         \/ ~TagsEqual(origConfInt.BlockTags, newConfInt.BlockTags)
         \/ origConfInt.TagRules # newConfInt.TagRules
         \/ origConfInt.PollInterval # newConfInt.PollInterval
         \/ origConfInt.FullInterval # newConfInt.FullInterval

\* The configuration directory's files, in the order sort.Sort leaves them.
ConfFiles == <<"a.yaml", "b.yaml">>
\* A file that is not there, and one that is.
Absent == [present |-> FALSE, mtime |-> 0, doc |-> EmptyDoc]
ConfFile(mtime, doc) == [present |-> TRUE, mtime |-> mtime, doc |-> doc]
Later(a, b) == IF a > b THEN a ELSE b

\* YConf.hasChanged: the directory or one of its files is newer than newest.
hasChanged(newest, y) ==
    \/ y.dirM > newest
    \/ \E i \in DOMAIN ConfFiles :
          y.files[ConfFiles[i]].present /\ y.files[ConfFiles[i]].mtime > newest

\* YConf.loadConfFile: decode, convert, and merge into what lo holds.
loadConfFile(lo, doc) ==
    IF ~doc.decodes THEN [err |-> TRUE, lo |-> lo]
    ELSE LET Merged(m) == [err |-> m.err, lo |-> IF m.err THEN lo ELSE [lo EXCEPT !.conf = m.out]]
             Converted(c) ==
                 IF c.err THEN [err |-> TRUE, lo |-> lo]
                 ELSE IF lo.conf.type # tyNil THEN Merged(yconfMerge(lo.conf, c.out))
                 ELSE [err |-> FALSE, lo |-> [lo EXCEPT !.conf = c.out]]
         IN  Converted(yconfConvert(doc))

RECURSIVE loadConfFrom(_, _, _)
\* The file loop of YConf.loadConf, from the i-th name on.
loadConfFrom(lo, y, i) ==
    IF i > Len(ConfFiles) THEN [err |-> FALSE, lo |-> lo]
    ELSE IF ~y.files[ConfFiles[i]].present THEN loadConfFrom(lo, y, i + 1)
    ELSE LET f == y.files[ConfFiles[i]]
             Next1(r) == IF r.err THEN r ELSE loadConfFrom(r.lo, y, i + 1)
         IN  Next1(loadConfFile([lo EXCEPT !.newest = Later(@, f.mtime)], f.doc))

\* YConf.loadConf on the configuration directory.
loadConf(lo, y) == loadConfFrom([lo EXCEPT !.newest = Later(@, y.dirM)], y, 1)

\* YConf.isLoadedEqual: yc.lo is never nil after New.
isLoadedEqual(y, nlo) == ~yconfChanged(y.lo, nlo)

\* A reload that commits what was loaded before the first failing file.
reloadKeepPartial(y) ==
    LET Done(r) == [y EXCEPT !.lo = r.lo, !.err = r.err, !.reloaded = TRUE,
                             !.notes = IF r.err THEN @ ELSE @ + 1]
    IN  Done(loadConf([type |-> tyLoaded, newest |-> y.clock, conf |-> NilValue], y))

\* YConf.reload: load every file; on failure keep what was committed; when
\* isLoadedEqual, advance newest only; else commit and start Notify.
reload(y) ==
    LET Done(r) ==
            IF r.err THEN [y EXCEPT !.err = TRUE, !.reloaded = TRUE]
            ELSE IF isLoadedEqual(y, r.lo)
            THEN [y EXCEPT !.lo.newest = r.lo.newest, !.err = FALSE, !.reloaded = TRUE]
            ELSE [y EXCEPT !.lo = r.lo, !.notes = @ + 1, !.err = FALSE, !.reloaded = TRUE]
    IN  Done(loadConf([type |-> tyLoaded, newest |-> y.clock, conf |-> NilValue], y))

\* YConf.CheckConf: reload when something is newer than the committed newest.
CheckConf(y) ==
    IF ~hasChanged(y.lo.newest, y) THEN [y EXCEPT !.err = FALSE, !.reloaded = FALSE]
    ELSE reload(y)

\* YConf.Get: the committed configuration, nil before the first load.
Get(y) == y.lo.conf

\* After yconf.New: nothing loaded; the directory holds its first documents.
ConfInit ==
    /\ \E a \in ConfDocs, b \in {ConfFile(1, d) : d \in ConfDocs} \cup {Absent} :
          yc = [files |-> [n \in {"a.yaml", "b.yaml"} |->
                             IF n = "a.yaml" THEN ConfFile(1, a) ELSE b],
                dirM |-> 1, clock |-> 1,
                lo |-> [type |-> tyLoaded, newest |-> 0, conf |-> NilValue],
                notes |-> 0, err |-> FALSE, reloaded |-> FALSE, checks |-> 0, edits |-> 0]
    /\ RuleParked /\ SideParked /\ ScanParked /\ imgcache = "none" /\ last = "none"
    /\ cm = "none" /\ stage = "none"

\* A document is written to a file of the directory (created when absent).
WriteConf(n, doc) ==
    /\ yc.edits < MaxConfEdits
    /\ yc' = [yc EXCEPT !.files[n] = ConfFile(yc.clock + 1, doc),
                        !.dirM = IF ~yc.files[n].present THEN yc.clock + 1 ELSE @,
                        !.clock = @ + 1, !.edits = @ + 1]
    /\ UNCHANGED <<scanVars, ruleT, sideT, cm, stage>>

\* A file of the directory is removed.
RemoveConf(n) ==
    /\ yc.edits < MaxConfEdits
    /\ yc.files[n].present
    /\ yc' = [yc EXCEPT !.files[n] = Absent, !.dirM = yc.clock + 1,
                        !.clock = @ + 1, !.edits = @ + 1]
    /\ UNCHANGED <<scanVars, ruleT, sideT, cm, stage>>

\* CheckConf is called: by the stage at construction, by the ticker later.
CheckConfStep ==
    /\ yc.checks < MaxChecks
    /\ yc' = [CheckConf(yc) EXCEPT !.checks = @ + 1]
    /\ UNCHANGED <<scanVars, ruleT, sideT, cm, stage>>

ConfNext ==
    \/ \E n \in {"a.yaml", "b.yaml"}, doc \in ConfDocs : WriteConf(n, doc)
    \/ \E n \in {"a.yaml", "b.yaml"} : RemoveConf(n)
    \/ CheckConfStep
SpecConf == ConfInit /\ [][ConfNext]_vars

\* What a reload started now would load.
LoadedNow == loadConf([type |-> tyLoaded, newest |-> yc.clock, conf |-> NilValue], yc)

\* A check has just run a reload.
Reloading == yc'.checks = yc.checks + 1 /\ hasChanged(yc.lo.newest, yc)

\* C16: when a file fails to decode, convert or merge during a reload, the
\* check returns the error, the committed configuration and Get() stay as they
\* were, and no notification is started.
C16_FailedReloadKeepsCommitted ==
    [][Reloading /\ LoadedNow.err
          => /\ yc'.err
             /\ yc'.lo = yc.lo
             /\ Get(yc') = Get(yc)
             /\ yc'.notes = yc.notes]_vars

\* C16 witness: a reload failed after a configuration had been committed and
\* after an earlier file of the same reload had loaded.
C16_FailedAfterCommit ==
    /\ yc.err /\ yc.reloaded /\ yc.lo.conf.type = tyConf
    /\ yc.files["a.yaml"].present /\ yc.files["b.yaml"].present
    /\ yc.files["a.yaml"].doc = [EmptyDoc EXCEPT !.Database = "db2"]
    /\ yc.lo.conf.Database # "db2"

\* C17: when a reload loads a configuration the stage's diff reports as no
\* different from the committed one, the committed value is not replaced, no
\* notification is started, and only the tracked newest time advances.
C17_UnchangedReloadIsQuiet ==
    [][Reloading /\ ~LoadedNow.err /\ ~yconfChanged(yc.lo.conf, LoadedNow.lo.conf)
          => /\ yc'.lo.conf = yc.lo.conf
             /\ yc'.notes = yc.notes
             /\ yc'.lo.newest = LoadedNow.lo.newest]_vars


(***************************************************************************)
(* Part 13.  A stage's configuration reloads: notifyConf and checkConf of   *)
(* the Scanner (imgproc) and of the Merger (cmerge) on what Get() returns.  *)
(***************************************************************************)

\* Notifications run in one behaviour.
MaxNotifies == 2

\* The Scanner's floor and default for an axis of MaxResolution.
ResFloor == 720
ResDefault == 3840

\* Bits of a reload's change set.
ucDBConn == "ucDBConn"
ucDBQuery == "ucDBQuery"
ucMaxRes == "ucMaxRes"
ucTagRules == "ucTagRules"
ucBlockTags == "ucBlockTags"
ucPollInt == "ucPollInt"
ucFullInt == "ucFullInt"

tyIPConf == "*imgproc.conf"
ScanQueryNames == {"PathsSelect", "PathsInsert", "PathsUpdate", "PathsDisable",
                   "FilesSelect", "FilesInsert", "FilesUpdate", "FilesDisable"}
ScanQueries == [q \in ScanQueryNames |-> "q"]

\* A Scanner configuration; Queries is a pointer that can be nil.
IPConf(db, qnil, qs, x, y, bases) ==
    [type |-> tyIPConf, Database |-> db, QueriesNil |-> qnil, Queries |-> qs,
     MaxResolution |-> [X |-> x, Y |-> y], Bases |-> bases]
NilIPConf == IPConf("", TRUE, [q \in ScanQueryNames |-> ""], 0, 0, 0)

\* ImageProc.checkConf on co when oldco is active.  samePtr: co is the object
\* that is active (its Queries pointer is oldco's); connTest: the connection
\* test to a changed database succeeds.
ImageProc_checkConf(co, oldco, samePtr, connTest) ==
    IF \/ co.Bases < 1
       \/ co.QueriesNil
       \/ \E q \in ScanQueryNames : co.Queries[q] = ""
    THEN [good |-> FALSE, ucBits |-> {}, co |-> co]
    ELSE LET Compared(c) ==
                 LET bits == (IF oldco.MaxResolution # c.MaxResolution THEN {ucMaxRes} ELSE {})
                             \cup (IF oldco.Database # c.Database THEN {ucDBConn} ELSE {})
                             \cup (IF ~samePtr THEN {ucDBQuery} ELSE {})
                 IN  [good |-> ~(ucDBConn \in bits /\ (c.Database = "" \/ ~connTest)),
                      ucBits |-> bits, co |-> c]
         IN  Compared([co EXCEPT
                 !.MaxResolution.X = IF @ < ResFloor THEN ResDefault ELSE @,
                 !.MaxResolution.Y = IF @ < ResFloor THEN ResDefault ELSE @])

\* ImageProc.notifyConf: s is the stage, p what Get() returns (isNil: nothing
\* is loaded), connects: dbConnect succeeds.
ImageProc_notifyConf(s, p, isNil, samePtr, connTest, connects) ==
    IF isNil THEN s
    ELSE LET Checked(r) ==
                 IF ~r.good THEN s
                 ELSE IF r.ucBits \cap {ucDBConn, ucDBQuery} # {} /\ ~connects THEN s
                 ELSE [s EXCEPT !.co = r.co, !.db = r.co.Database,
                                !.ucBits = r.ucBits \ {ucDBConn, ucDBQuery}]
         IN  Checked(ImageProc_checkConf(p, s.co, samePtr, connTest))

\* CMerge.checkConf.
CMerge_checkConf(co, isReload, oldco) ==
    IF \/ co.Database = ""
       \/ \E q \in DOMAIN co.Queries : co.Queries[q] = ""
       \/ co.PollInterval < Second
       \/ co.FullInterval < Second
    THEN [good |-> FALSE, ucBits |-> {}]
    ELSE IF ~isReload THEN [good |-> TRUE, ucBits |-> {}]
    ELSE [good |-> TRUE,
          ucBits |-> (IF co.Database # oldco.Database THEN {ucDBConn} ELSE {})
                     \cup (IF co.Queries # oldco.Queries THEN {ucDBQuery} ELSE {})
                     \cup (IF ~TagsEqual(co.BlockTags, oldco.BlockTags) THEN {ucBlockTags} ELSE {})
                     \cup (IF co.TagRules # oldco.TagRules THEN {ucTagRules} ELSE {})
                     \cup (IF co.PollInterval # oldco.PollInterval THEN {ucPollInt} ELSE {})
                     \cup (IF co.FullInterval # oldco.FullInterval THEN {ucFullInt} ELSE {})]

\* A notifyConf that stores what Get() returns before checking it.
CMerge_notifyConfStoreFirst(s, p, isNil, connects) ==
    IF isNil THEN s ELSE [s EXCEPT !.co = p]

\* CMerge.notifyConf.
CMerge_notifyConf(s, p, isNil, connects) ==
    IF isNil THEN s
    ELSE LET Checked(r) ==
                 IF ~r.good THEN s
                 ELSE IF r.ucBits \cap {ucDBConn, ucDBQuery} # {} /\ ~connects THEN s
                 ELSE [s EXCEPT
                         !.co = p,
                         !.db = IF r.ucBits \cap {ucDBConn, ucDBQuery} # {} THEN p.Database ELSE @,
                         !.ucBits = r.ucBits,
                         !.full = r.ucBits \cap {ucDBConn, ucDBQuery, ucTagRules, ucBlockTags} # {}]
         IN  Checked(CMerge_checkConf(p, TRUE, s.co))

\* What Get() can return to the Scanner's notifyConf.
ScanProposals ==
    {IPConf(db, qs[1], qs[2], x, y, b) :
        db \in {"", "db1", "db2"},
        qs \in {<<TRUE, [q \in ScanQueryNames |-> ""]>>, <<FALSE, ScanQueries>>,
                <<FALSE, [ScanQueries EXCEPT !["FilesUpdate"] = ""]>>},
        x \in {0, ResFloor - 1, ResFloor, ResDefault},
        y \in {0, ResFloor - 1, ResFloor, ResDefault},
        b \in {0, 1}}

\* What Get() can return to the Merger's notifyConf.
MergeProposals ==
    {[yconfConvert(BaseDoc).out EXCEPT
         !.Database = db, !.Queries = qs, !.PollInterval = pi, !.FullInterval = fi,
         !.BlockTags = bt] :
        db \in {"", "db1", "db2"},
        qs \in {AllQueries, NoQueries, [AllQueries EXCEPT !.Poll = ""]},
        pi \in {0, Second}, fi \in {0, Second \div 2, Minute},
        bt \in {<<>>, <<SunId>>}}

\* A stage after New: its first configuration is active and connected.
StageRecord(kind, co) ==
    [kind |-> kind, co |-> co, db |-> co.Database, ucBits |-> {}, full |-> FALSE,
     prev |-> co, proposed |-> co, isNil |-> FALSE, connOK |-> TRUE, n |-> 0]
StageInit ==
    /\ \/ \E x \in {ResFloor, ResDefault} :
             stage = StageRecord("imgproc", IPConf("db1", FALSE, ScanQueries, x, ResDefault, 1))
       \/ stage = StageRecord("cmerge", yconfConvert(BaseDoc).out)
    /\ RuleParked /\ SideParked /\ ScanParked /\ imgcache = "none" /\ last = "none"
    /\ cm = "none" /\ yc = "none"

\* What a notification records beside the stage's own fields.
Notified(s2, p, isNil, ok) ==
    [s2 EXCEPT !.prev = stage.co, !.proposed = p, !.isNil = isNil, !.connOK = ok,
               !.n = stage.n + 1]

\* The watcher's Notify runs the Scanner's notifyConf.
ScanNotifyStep ==
    /\ stage.kind = "imgproc" /\ stage.n < MaxNotifies
    /\ \E isNil, connTest, connects \in BOOLEAN :
       \E p \in IF isNil THEN {NilIPConf} ELSE ScanProposals \cup {stage.co} :
          stage' = Notified(ImageProc_notifyConf(stage, p, isNil, p = stage.co, connTest, connects),
                            p, isNil, connTest /\ connects)
    /\ UNCHANGED <<scanVars, ruleT, sideT, cm, yc>>

\* The watcher's Notify runs the Merger's notifyConf.
MergeNotifyStep ==
    /\ stage.kind = "cmerge" /\ stage.n < MaxNotifies
    /\ \E isNil, connects \in BOOLEAN :
       \E p \in IF isNil THEN {NilValue} ELSE MergeProposals :
          stage' = Notified(CMerge_notifyConf(stage, p, isNil, connects), p, isNil, connects)
    /\ UNCHANGED <<scanVars, ruleT, sideT, cm, yc>>

StageNext == ScanNotifyStep \/ MergeNotifyStep
SpecStage == StageInit /\ [][StageNext]_vars

\* A proposal misses a required field or has an empty query.
MissingField(kind, p, isNil) ==
    \/ isNil
    \/ p.Database = ""
    \/ \E q \in DOMAIN p.Queries : p.Queries[q] = ""
    \/ kind = "imgproc" /\ (p.QueriesNil \/ p.Bases < 1)
    \/ kind = "cmerge" /\ (p.PollInterval < Second \/ p.FullInterval < Second)

\* A Scanner proposal has an axis of its maximum resolution below the floor.
LowResolution(kind, p, isNil) ==
    /\ kind = "imgproc" /\ ~isNil
    /\ p.MaxResolution.X < ResFloor \/ p.MaxResolution.Y < ResFloor

\* The proposal with every axis below the floor replaced by the default.
RaisedToDefault(p) ==
    [p EXCEPT !.MaxResolution.X = IF @ < ResFloor THEN ResDefault ELSE @,
              !.MaxResolution.Y = IF @ < ResFloor THEN ResDefault ELSE @]

MaxCalls == 4
MaxSwaps == 2

\* types.ErrShutdown, the shutdown sentinel.
ErrShutdown == "ErrShutdown"
ProfileNames == {"", "p", "x"}
DrawCounts == {1, 2}

\* A loadCP that trusts the handle's cacheProfile without probing its flag.
loadCPUnprobed(st) == [err |-> "nil", cp |-> st.handle]

\* wProfile.loadCP: the handle's cacheProfile while it is not closed, else
\* the map's current one under the same name, else "invalid profile".
\* The Weighter's closed flag is not read.
wProfile_loadCP(st) ==
    IF st.handle.gen \notin st.closedGens
      THEN [err |-> "nil", cp |-> st.handle]
      ELSE IF st.present
             THEN [err |-> "nil",
                   cp  |-> [out |-> TRUE, gen |-> st.gen, maxRoll |-> st.maxRoll]]
             ELSE [err |-> "invalid profile", cp |-> st.handle]

\* wProfile.Get: loadCP, then num draws unless the profile is empty.
wProfile_Get(st, num) ==
    LET Drawn(l) ==
          IF l.err # "nil"
            THEN [st EXCEPT !.call = "Get", !.result = l.err, !.got = 0]
            ELSE IF l.cp.maxRoll = 0
                   THEN [st EXCEPT !.handle = l.cp, !.call = "Get",
                                   !.result = "no images for tagprofile", !.got = 0]
                   ELSE [st EXCEPT !.handle = l.cp, !.call = "Get",
                                   !.result = "ids", !.got = num]
    IN  Drawn(wProfile_loadCP(st))

\* Weighter.GetProfile: a handle on the named profile of the map.
Weighter_GetProfile(st, pr) ==
    IF pr = ""
      THEN [st EXCEPT !.call = "GetProfile", !.result = "invalid profile", !.got = 0]
      ELSE IF pr = "p" /\ st.present
             THEN [st EXCEPT !.handle = [out |-> TRUE, gen |-> st.gen,
                                         maxRoll |-> st.maxRoll],
                             !.call = "GetProfile", !.result = "handle", !.got = 0]
             ELSE [st EXCEPT !.call = "GetProfile",
                             !.result = "profile not found", !.got = 0]

\* ImageProc.getDB: refuses once closed.
ImageProc_getDB(st) ==
    IF st.closed = 1 THEN ErrShutdown
    ELSE IF ~st.pool THEN "Not a pool" ELSE "pool"

\* CMerge.getDB and Weighter.getDB: the stored pool, closed or not.
CMerge_getDB(st) ==
    IF ~st.pool THEN "Not a pool" ELSE "pool"

\* The stage's getDB.
StageGetDB(st) ==
    IF st.kind = "imgproc" THEN ImageProc_getDB(st) ELSE CMerge_getDB(st)

\* close: compare-and-swap of the flag, then the pool getDB gives is closed.
StageClose(st) ==
    IF st.closed = 1
      THEN [st EXCEPT !.call = "Close", !.result = "already closed", !.got = 0]
      ELSE LET Shut(c) == [c EXCEPT !.dbOpen = IF StageGetDB(c) = "pool"
                                                  THEN FALSE ELSE c.dbOpen,
                                    !.call = "Close", !.result = "closed", !.got = 0]
           IN  Shut([st EXCEPT !.closed = 1])

\* A stage after New: open; the Weighter's map holds profile "p" as its
\* cacheProfile of generation 0, and no handle is out yet.
ShutInit ==
    /\ \E kind \in {"imgproc", "cmerge", "weighter"}, roll \in {0, 3},
          pool \in BOOLEAN :
          /\ kind = "weighter" \/ roll = 0
          /\ stage = [kind |-> kind, closed |-> 0, pool |-> pool, dbOpen |-> pool,
                      gen |-> 0, present |-> kind = "weighter", maxRoll |-> roll,
                      closedGens |-> {},
                      handle |-> [out |-> FALSE, gen |-> 0, maxRoll |-> 0],
                      call |-> "none", result |-> "none", got |-> 0, calls |-> 0]
    /\ RuleParked /\ SideParked /\ ScanParked
    /\ imgcache = "none" /\ last = "none" /\ cm = "none" /\ yc = "none"

ShutQuiet == UNCHANGED <<scanVars, ruleT, sideT, cm, yc>>

Counted(st) == [st EXCEPT !.calls = st.calls + 1]

\* Weighter.GetProfile(pr).
GetProfileStep(pr) ==
    /\ stage.kind = "weighter" /\ stage.calls < MaxCalls
    /\ stage' = Counted(Weighter_GetProfile(stage, pr))
    /\ ShutQuiet

\* wProfile.Get(num) on the handle given out earlier.
HandleGetStep(num) ==
    /\ stage.kind = "weighter" /\ stage.handle.out /\ stage.calls < MaxCalls
    /\ stage' = Counted(wProfile_Get(stage, num))
    /\ ShutQuiet

\* makeProfileWeights: the loop replaces the map's profiles and closes the
\* cacheProfiles it replaced; the loop ends with the stage.
SwapProfiles(present, roll) ==
    /\ stage.kind = "weighter" /\ stage.closed = 0 /\ stage.gen < MaxSwaps
    /\ present \/ roll = 0
    /\ stage' = [stage EXCEPT !.gen = stage.gen + 1, !.present = present,
                              !.maxRoll = roll,
                              !.closedGens = stage.closedGens \cup {stage.gen},
                              !.call = "swap", !.result = "none", !.got = 0]
    /\ ShutQuiet

\* getDB, as every database step of a stage starts.
GetDBStep ==
    /\ stage.calls < MaxCalls
    /\ stage' = Counted([stage EXCEPT !.call = "getDB",
                                      !.result = StageGetDB(stage), !.got = 0])
    /\ ShutQuiet

\* Close of the stage.
CloseStep ==
    /\ stage.calls < MaxCalls
    /\ stage' = Counted(StageClose(stage))
    /\ ShutQuiet

ShutNext ==
    \/ \E pr \in ProfileNames : GetProfileStep(pr)
    \/ \E num \in DrawCounts : HandleGetStep(num)
    \/ \E present \in BOOLEAN, roll \in {0, 3} : SwapProfiles(present, roll)
    \/ GetDBStep
    \/ CloseStep

SpecShutdown == ShutInit /\ [][ShutNext]_vars

\* C19: once a stage's closed flag is set, every entry point called on it
\* (profile lookup, a draw on an existing handle, getDB) returns the
\* shutdown sentinel.
C19_ClosedReturnsShutdown ==
    (stage.closed = 1 /\ stage.call \in {"GetProfile", "Get", "getDB"})
        => stage.result = ErrShutdown

\* A draw on a handle of a closed Weighter that hands out image ids.
C19_DrawAfterClose ==
    stage.kind = "weighter" /\ stage.closed = 1 /\ stage.call = "Get"
        /\ stage.result = "ids" /\ stage.got > 0

(***************************************************************************)
(* Part 15.  The Merger's cache and the merged table: doFull and doPoll     *)
(* with selectMerged, fullQuery, pollQuery, fullMerge, pollMerge, pushHash. *)
(***************************************************************************)

\* Writes to the files table, runs of the Merger and database errors in one
\* behaviour.
MaxFileWrites == 3
MaxMergeRuns == 3
MaxMergeFaults == 1

\* Content hashes, and the tag lists the Scanner stores with a file.
MergeHashes == {"h1", "h2"}
MergeTagLists == {<<1>>, <<2>>}

\* The row id the store gives a hash (merged rows are unique by hash).
MergedId(h) == IF h = "h1" THEN 1 ELSE 2

\* The Merger's configuration: no rules, tag 2 blocks.
MergeConf == [TagRules |-> <<>>, BlockTags |-> <<2>>]

NoFileRow == [present |-> FALSE, hash |-> "h1", tags |-> <<>>,
              enabled |-> FALSE, recent |-> FALSE]
NoMergedRow == [present |-> FALSE, tags |-> <<>>, blocked |-> FALSE, enabled |-> FALSE]

\* ca.hashes[h] and ca.pollChanged[h].  A pollChanged entry is a pointer: to
\* the hashCache the map holds under h (alias), or to one the map no longer
\* holds (kept in hc).
NoEntry(h) == [present |-> FALSE, hc |-> NewHashCache(h)]
NoChanged(h) == [present |-> FALSE, alias |-> FALSE, hc |-> NewHashCache(h)]
Aliased(h) == [present |-> TRUE, alias |-> TRUE, hc |-> NewHashCache(h)]
EmptyCache == [hashes |-> [h \in MergeHashes |-> NoEntry(h)],
               pc     |-> [h \in MergeHashes |-> NoChanged(h)]]

PutFile(files, fid, fc) ==
    [f \in DOMAIN files \cup {fid} |-> IF f = fid THEN fc ELSE files[f]]
DelFile(files, fid) == [f \in DOMAIN files \ {fid} |-> files[f]]

\* One row of pollQuery's loop: a file row (fid, hash, tags, enabled).
pollRow(ca, fid, row) ==
    LET inMap == ca.hashes[row.hash].present
        Row(hc, tgs) ==
            LET has == fid \in DOMAIN hc.Files
                Old == IF has THEN hc.Files[fid].Tags ELSE <<>>
                changed == ~inMap \/ ~has \/ ~row.enabled \/ ~TagsEqual(tgs, Old)
            IN  IF ~has /\ ~row.enabled THEN ca
                ELSE [hashes |-> [ca.hashes EXCEPT ![row.hash] =
                         [present |-> TRUE,
                          hc |-> [hc EXCEPT !.Files =
                                    IF ~row.enabled THEN DelFile(hc.Files, fid)
                                    ELSE PutFile(hc.Files, fid, [ID |-> fid, Tags |-> tgs])]]],
                      pc |-> IF changed
                             THEN [ca.pc EXCEPT ![row.hash] = Aliased(row.hash)]
                             ELSE ca.pc]
    IN  IF ~inMap /\ ~row.enabled THEN ca
        ELSE Row(IF inMap THEN ca.hashes[row.hash].hc ELSE NewHashCache(row.hash),
                 Fix(row.tags))

RECURSIVE pollQuery(_, _, _)
\* pollQuery: the rows of "poll", the files updated inside the poll window.
pollQuery(ca, files, fid) ==
    IF fid > MaxFiles THEN ca
    ELSE pollQuery(IF files[fid].present /\ files[fid].recent
                   THEN pollRow(ca, fid, files[fid]) ELSE ca,
                   files, fid + 1)

\* One row of fullQuery's loop: an enabled file row (fid, hash, tags).
fullRow(ca, fid, row) ==
    LET Row(hc) ==
            [ca EXCEPT !.hashes[row.hash] =
                [present |-> TRUE,
                 hc |-> [hc EXCEPT !.Files =
                           PutFile(hc.Files, fid, [ID |-> fid, Tags |-> row.tags])]]]
    IN  Row(IF ca.hashes[row.hash].present
            THEN ca.hashes[row.hash].hc ELSE NewHashCache(row.hash))

RECURSIVE fullQuery(_, _, _)
\* fullQuery: the rows of "full", the enabled files.
fullQuery(ca, files, fid) ==
    IF fid > MaxFiles THEN ca
    ELSE fullQuery(IF files[fid].present /\ files[fid].enabled
                   THEN fullRow(ca, fid, files[fid]) ELSE ca,
                   files, fid + 1)

\* selectMerged: one hashCache per row of "select", with the row's id.
selectMerged(ca, merged, selectAll) ==
    [ca EXCEPT !.hashes =
        [h \in MergeHashes |->
            IF merged[h].present /\ (selectAll \/ merged[h].enabled)
            THEN [present |-> TRUE,
                  hc |-> [NewHashCache(h) EXCEPT !.ID = MergedId(h),
                                                 !.Tags = Fix(merged[h].tags),
                                                 !.Blocked = merged[h].blocked]]
            ELSE ca.hashes[h]]]

\* The hashCache a merge loop is looking at: the map's (loc "map") or one
\* only pollChanged still points to (loc "pc").
LoadHC(ca, h, loc) == IF loc = "map" THEN ca.hashes[h].hc ELSE ca.pc[h].hc
StoreHC(ca, h, loc, hc) ==
    IF loc = "map" THEN [ca EXCEPT !.hashes[h].hc = hc]
                   ELSE [ca EXCEPT !.pc[h].hc = hc]

\* delete(cm.ca.hashes, hc.Hash): the map forgets the key, whichever
\* hashCache it held under it; pollChanged keeps its pointer.
DeleteHash(ca, h, loc, hc) ==
    [hashes |-> [ca.hashes EXCEPT ![h] = NoEntry(h)],
     pc     |-> IF ca.pc[h].present
                THEN [ca.pc EXCEPT ![h] = [present |-> TRUE, alias |-> FALSE, hc |-> hc]]
                ELSE ca.pc]

\* CMerge.pushHash on a changed hashCache, inside the transaction whose view
\* of the merged table is s.tx; the statement numbered s.failAt fails.
pushHash(s, h, loc, hc) ==
    LET failed == s.n + 1 = s.failAt
        Sent == [s EXCEPT !.n = s.n + 1]
    IN  IF hc.Disabled
        THEN IF hc.ID = 0
             THEN [s EXCEPT !.ca = StoreHC(s.ca, h, loc, hc), !.err = TRUE]
             ELSE IF failed
                  THEN [Sent EXCEPT !.ca = StoreHC(s.ca, h, loc, hc), !.err = TRUE]
                  ELSE [Sent EXCEPT !.ca = DeleteHash(s.ca, h, loc, hc),
                                    !.tx[h].enabled = FALSE]
        ELSE IF hc.ID # 0
             THEN IF failed
                  THEN [Sent EXCEPT !.ca = StoreHC(s.ca, h, loc, hc), !.err = TRUE]
                  ELSE [Sent EXCEPT
                          !.ca = StoreHC(s.ca, h, loc, [hc EXCEPT !.Changed = FALSE]),
                          !.tx[h] = IF s.tx[h].present
                                    THEN [s.tx[h] EXCEPT !.tags = hc.Tags,
                                                         !.blocked = hc.Blocked]
                                    ELSE s.tx[h]]
             ELSE IF failed
                  THEN [Sent EXCEPT !.ca = StoreHC(s.ca, h, loc, hc), !.err = TRUE]
                  ELSE [Sent EXCEPT
                          !.ca = StoreHC(s.ca, h, loc,
                                         [hc EXCEPT !.ID = MergedId(h), !.Changed = FALSE]),
                          !.tx[h] = [present |-> TRUE, tags |-> hc.Tags,
                                     blocked |-> hc.Blocked, enabled |-> TRUE]]

\* The files of a hashCache in ascending id, the order the fold takes them in
\* (Combine of canonical lists does not depend on it).
FileOrder(files) ==
    CHOOSE o \in MapOrders(DOMAIN files) : \A i, j \in DOMAIN o : i < j => o[i] < o[j]

\* The body of the loops of fullMerge and pollMerge: hashCheck, then pushHash
\* when the hashCache changed.
mergeOne(s, h, loc) ==
    LET Checked(r) ==
            IF r.err THEN [s EXCEPT !.err = TRUE]
            ELSE IF r.hc.Changed THEN pushHash(s, h, loc, r.hc)
            ELSE s
        One(hc) == Checked(hashCheck(hc, MergeConf, FileOrder(hc.Files)))
    IN  One(LoadHC(s.ca, h, loc))

RECURSIVE fullMerge(_, _)
\* fullMerge: every hashCache of the map, in the order ord of the range.
fullMerge(s, ord) ==
    IF ord = <<>> \/ s.err THEN s
    ELSE fullMerge(mergeOne(s, Head(ord), "map"), Tail(ord))

RECURSIVE pollMergeLoop(_, _)
pollMergeLoop(s, ord) ==
    IF ord = <<>> \/ s.err THEN s
    ELSE pollMergeLoop(mergeOne(s, Head(ord),
                                IF s.ca.pc[Head(ord)].alias THEN "map" ELSE "pc"),
                       Tail(ord))

\* pollMerge: every hashCache of pollChanged, then pollChanged is dropped.
pollMerge(s, ord) ==
    LET Done(r) == IF r.err THEN r
                   ELSE [r EXCEPT !.ca.pc = [h \in MergeHashes |-> NoChanged(h)]]
    IN  Done(pollMergeLoop(s, ord))

\* Where a run of the Merger meets a database error; exec fails the k-th
\* statement of the transaction.
MergeFaults ==
    {[at |-> p, k |-> 0] : p \in {"none", "select", "query", "begin", "commit"}}
        \cup {[at |-> "exec", k |-> k] : k \in 1..2}

MergeStart(ca, merged, fault) ==
    [ca |-> ca, tx |-> merged, err |-> FALSE, n |-> 0,
     failAt |-> IF fault.at = "exec" THEN fault.k ELSE 0]

\* The keys a range over the map, or over pollChanged, visits.
MapKeys(ca) == {h \in MergeHashes : ca.hashes[h].present}
ChangedKeys(ca) == {h \in MergeHashes : ca.pc[h].present}

\* doFull's new map: pollChanged keeps the hashCaches of the old one.
ClearHashes(ca) ==
    [hashes |-> [h \in MergeHashes |-> NoEntry(h)],
     pc     |-> [h \in MergeHashes |->
                    IF ca.pc[h].present /\ ca.pc[h].alias
                    THEN [present |-> TRUE, alias |-> FALSE, hc |-> ca.hashes[h].hc]
                    ELSE ca.pc[h]]]

\* doFull up to the transaction: the cache after selectMerged and fullQuery.
fullLoaded(ca, files, merged, selectAll) ==
    fullQuery(selectMerged(ClearHashes(ca), merged, selectAll), files, 1)

\* CMerge.doFull: the cache and the merged table it leaves, its error, and
\* what became of the transaction it began: "none" when it began none,
\* "committed", "rolled back", "commit failed" (the driver ends a transaction
\* whose commit fails) or "open" when it returned without ending it.
doFull(ca, files, merged, selectAll, fault, ord) ==
    LET Out(c, m, e, t) == [ca |-> c, merged |-> m, err |-> e, tx |-> t]
        Merged(r) ==
            IF r.err THEN Out(r.ca, merged, TRUE, "open")
            ELSE IF fault.at = "commit" THEN Out(r.ca, merged, TRUE, "commit failed")
            ELSE Out(r.ca, r.tx, FALSE, "committed")
    IN  IF fault.at = "select" THEN Out(ClearHashes(ca), merged, TRUE, "none")
        ELSE IF fault.at = "query"
             THEN Out(selectMerged(ClearHashes(ca), merged, selectAll), merged, TRUE, "none")
        ELSE IF fault.at = "begin"
             THEN Out(fullLoaded(ca, files, merged, selectAll), merged, TRUE, "none")
        ELSE Merged(fullMerge(MergeStart(fullLoaded(ca, files, merged, selectAll),
                                         merged, fault), ord))

\* CMerge.doPoll: pollQuery, then pollMerge in a transaction that is rolled
\* back on its error.
doPoll(ca, files, merged, fault, ord) ==
    LET Out(c, m, e, t) == [ca |-> c, merged |-> m, err |-> e, tx |-> t]
        Merged(r) ==
            IF r.err THEN Out(r.ca, merged, TRUE, "rolled back")
            ELSE IF fault.at = "commit" THEN Out(r.ca, merged, TRUE, "commit failed")
            ELSE Out(r.ca, r.tx, FALSE, "committed")
    IN  IF fault.at = "query" THEN Out(ca, merged, TRUE, "none")
        ELSE IF fault.at = "begin" THEN Out(pollQuery(ca, files, 1), merged, TRUE, "none")
        ELSE Merged(pollMerge(MergeStart(pollQuery(ca, files, 1), merged, fault), ord))

\* cm: the files table the Scanner writes, the merged table, the Merger's
\* cache, whether the configured "select" reads every merged row or only the
\* enabled ones, and the last run with its outcome and its transaction.
MergeInit ==
    /\ \E selectAll \in BOOLEAN :
          cm = [files |-> [fid \in FileIdsOfHash |-> NoFileRow],
                merged |-> [h \in MergeHashes |-> NoMergedRow],
                ca |-> EmptyCache, selectAll |-> selectAll,
                last |-> "none", ok |-> FALSE, tx |-> "none",
                writes |-> 0, runs |-> 0, faults |-> 0]
    /\ RuleParked /\ SideParked /\ ScanParked /\ imgcache = "none" /\ last = "none"
    /\ yc = "none" /\ stage = "none"

MergeQuiet == UNCHANGED <<scanVars, ruleT, sideT, yc, stage>>

\* The Scanner inserts a file row, or changes the tags or the enabled column
\* of one; the row's updated time moves into the poll window.
FilesWrite(fid, hash, tgs, enabled) ==
    /\ cm.writes < MaxFileWrites
    /\ fid = 1 => hash = "h1"
    /\ IF cm.files[fid].present
       THEN /\ hash = cm.files[fid].hash
            /\ tgs # cm.files[fid].tags \/ enabled # cm.files[fid].enabled
       ELSE enabled
    /\ cm' = [cm EXCEPT !.files[fid] = [present |-> TRUE, hash |-> hash, tags |-> tgs,
                                        enabled |-> enabled, recent |-> TRUE],
                        !.writes = cm.writes + 1]
    /\ MergeQuiet

\* The poll window passes over the rows updated so far.
WindowPasses ==
    /\ \E fid \in FileIdsOfHash : cm.files[fid].recent
    /\ cm' = [cm EXCEPT !.files = [fid \in FileIdsOfHash |->
                                      [cm.files[fid] EXCEPT !.recent = FALSE]]]
    /\ MergeQuiet

MergeRan(r, name, fault) ==
    cm' = [cm EXCEPT !.ca = r.ca, !.merged = r.merged, !.last = name, !.ok = ~r.err,
                     !.tx = r.tx, !.runs = cm.runs + 1,
                     !.faults = cm.faults + IF fault.at = "none" THEN 0 ELSE 1]

\* doFull, from New or from the loop's full ticker.
FullStep(fault) ==
    /\ cm.runs < MaxMergeRuns
    /\ fault.at # "none" => cm.faults < MaxMergeFaults
    /\ \E ord \in MapOrders(MapKeys(fullLoaded(cm.ca, cm.files, cm.merged, cm.selectAll))) :
          MergeRan(doFull(cm.ca, cm.files, cm.merged, cm.selectAll, fault, ord),
                   "full", fault)
    /\ MergeQuiet

\* doPoll, from the loop's poll ticker; New has run doFull before the loop.
PollStep(fault) ==
    /\ cm.last # "none" /\ cm.runs < MaxMergeRuns
    /\ fault.at # "select"
    /\ fault.at # "none" => cm.faults < MaxMergeFaults
    /\ \E ord \in MapOrders(ChangedKeys(pollQuery(cm.ca, cm.files, 1))) :
          MergeRan(doPoll(cm.ca, cm.files, cm.merged, fault, ord), "poll", fault)
    /\ MergeQuiet

MergeNext ==
    \/ \E fid \in FileIdsOfHash, hash \in MergeHashes, tgs \in MergeTagLists,
          enabled \in BOOLEAN : FilesWrite(fid, hash, tgs, enabled)
    \/ WindowPasses
    \/ \E fault \in MergeFaults : FullStep(fault)
    \/ \E fault \in MergeFaults : PollStep(fault)

SpecMerge == MergeInit /\ [][MergeNext]_vars

\* The hashes the Merger's map holds, and those of the enabled merged rows.
HashesInMap == {h \in MergeHashes : cm.ca.hashes[h].present}
EnabledMerged == {h \in MergeHashes : cm.merged[h].present /\ cm.merged[h].enabled}

\* C20: after every full() or poll() that has returned, the Merger's map
\* holds exactly the hashes whose merged rows are enabled.
C20_MapIsEnabledRows ==
    cm.last # "none" => HashesInMap = EnabledMerged

\* A run that returned without error and left in the map a hash whose merged
\* row is missing or disabled.
C20_MapAheadOfTable ==
    cm.last # "none" /\ cm.ok /\ HashesInMap \ EnabledMerged # {}


(***************************************************************************)
(* Part 16.  doPoll followed by doFull, against doFull alone, from the same *)
(* cache and the same files and merged tables.                              *)
(***************************************************************************)

NoMergeFault == [at |-> "none", k |-> 0]

\* doFull run on what doPoll left.
fullAfter(p, files, selectAll, ord) == doFull(p.ca, files, p.merged, selectAll, NoMergeFault, ord)

\* The loop runs doPoll and then doFull with no write to the files table in
\* between; ruleT keeps the merged table doFull alone leaves from the same
\* state, and the one doPoll left.  The comparison ends the behaviour.
PollThenFull ==
    /\ cm.last \in {"full", "poll"}
    /\ \E o1 \in MapOrders(ChangedKeys(pollQuery(cm.ca, cm.files, 1))) :
       \E p \in {doPoll(cm.ca, cm.files, cm.merged, NoMergeFault, o1)} :
       \E o2 \in MapOrders(MapKeys(fullLoaded(p.ca, cm.files, p.merged, cm.selectAll))) :
       \E f \in {fullAfter(p, cm.files, cm.selectAll, o2)} :
       \E o3 \in MapOrders(MapKeys(fullLoaded(cm.ca, cm.files, cm.merged, cm.selectAll))) :
       \E a \in {doFull(cm.ca, cm.files, cm.merged, cm.selectAll, NoMergeFault, o3)} :
          /\ cm' = [cm EXCEPT !.ca = f.ca, !.merged = f.merged, !.last = "poll-full",
                              !.ok = ~p.err /\ ~f.err, !.tx = f.tx]
          /\ ruleT' = [before |-> cm.merged, polled |-> p.merged,
                       alone |-> a.merged, aloneOk |-> ~a.err]
    /\ UNCHANGED <<scanVars, sideT, yc, stage>>

TwinNext ==
    \/ cm.last # "poll-full" /\ MergeNext
    \/ PollThenFull

SpecTwin == MergeInit /\ [][TwinNext]_vars

\* C21: running poll() and then full() leaves the merged table equal to the
\* table full() alone produces over the same store snapshot.
C21_PollThenFullIsFull ==
    cm.last = "poll-full" /\ cm.ok /\ ruleT.aloneOk => cm.merged = ruleT.alone


(***************************************************************************)
(* Part 17.  The poll ticker of the Merger's and the Weighter's loopy and   *)
(* its back-off.  A time.Duration is an int64 of nanoseconds; here it is    *)
(* three limbs in base 10^9, e18 * 10^18 + e9 * 10^9 + e0, with a sign.     *)
(***************************************************************************)

\* Polls in one behaviour.
MaxPolls == 5

\* The base of a limb.
Giga == 1000000000

\* 2^64 and 2^63 in limbs.
Two64 == [e18 |-> 18, e9 |-> 446744073, e0 |-> 709551616]
Two63 == [e18 |-> 9, e9 |-> 223372036, e0 |-> 854775808]

\* The configured poll intervals, in whole seconds (at least one second).
PollSeconds == {1, 2, 5}

\* s seconds as a time.Duration.
Seconds(s) == [neg |-> FALSE, e18 |-> 0, e9 |-> s, e0 |-> 0]

LimbLess(a, b) ==
    \/ a.e18 < b.e18
    \/ a.e18 = b.e18 /\ a.e9 < b.e9
    \/ a.e18 = b.e18 /\ a.e9 = b.e9 /\ a.e0 < b.e0

\* a - b for limbs a >= b.
LimbSub(a, b) ==
    LET b0 == IF a.e0 < b.e0 THEN 1 ELSE 0
        b9 == IF a.e9 - b0 < b.e9 THEN 1 ELSE 0
    IN  [e18 |-> a.e18 - b.e18 - b9,
         e9  |-> a.e9 - b0 - b.e9 + b9 * Giga,
         e0  |-> a.e0 - b.e0 + b0 * Giga]

RECURSIVE Mod64(_)
\* The limbs of a non-negative number, reduced modulo 2^64.
Mod64(a) == IF LimbLess(a, Two64) THEN a ELSE Mod64(LimbSub(a, Two64))

\* The int64 a product of non-negative factors wraps to.
Wrap64(a) ==
    LET Signed(r) ==
            IF LimbLess(r, Two63)
            THEN [neg |-> FALSE, e18 |-> r.e18, e9 |-> r.e9, e0 |-> r.e0]
            ELSE LET M(m) == [neg |-> TRUE, e18 |-> m.e18, e9 |-> m.e9, e0 |-> m.e0]
                 IN  M(LimbSub(Two64, r))
    IN  Signed(Mod64(a))

\* pollInt * time.Duration(time.Second * time.Duration(errors)) for a pollInt
\* of s seconds: s * 10^9 * 10^9 * errors nanoseconds, as an int64.
backoff(s, errors) == Wrap64([e18 |-> s * errors, e9 |-> 0, e0 |-> 0])

\* A back-off that adds one pollInt for every failed poll.
backoffAdditive(s, errors) == Seconds(s * errors)

\* Ticker.Reset panics on a duration that is not positive.
ResetPanics(d) == d.neg \/ (d.e18 = 0 /\ d.e9 = 0 /\ d.e0 = 0)

\* stage: the loop of one stage: the configured PollInterval, the loop's
\* pollInt and errors, the period of nextPoll, and how the last poll ended.
LoopInit ==
    /\ \E kind \in {"cmerge", "weighter"}, s \in PollSeconds :
          stage = [kind |-> kind, conf |-> s, pollInt |-> s, errors |-> 0,
                   period |-> Seconds(s), panicked |-> FALSE,
                   polled |-> "none", failed |-> 0, polls |-> 0]
    /\ RuleParked /\ SideParked /\ ScanParked
    /\ imgcache = "none" /\ last = "none" /\ cm = "none" /\ yc = "none"

\* The poll ticker fires: the loop follows a changed PollInterval, runs
\* doPoll, and resets the ticker after an error, or after the first success
\* that follows errors.
PollTick(ok) ==
    /\ ~stage.panicked /\ stage.polls < MaxPolls
    /\ LET Ticked(pollInt, period) ==
             IF ok
             THEN [stage EXCEPT !.pollInt = pollInt, !.errors = 0,
                                !.period = IF stage.errors > 0 THEN Seconds(pollInt)
                                           ELSE period,
                                !.polled = "ok", !.failed = 0,
                                !.polls = stage.polls + 1]
             ELSE LET Reset(d) ==
                        [stage EXCEPT !.pollInt = pollInt,
                                      !.errors = stage.errors + 1,
                                      !.period = IF ResetPanics(d) THEN period ELSE d,
                                      !.panicked = ResetPanics(d),
                                      !.polled = "error",
                                      !.failed = stage.failed + 1,
                                      !.polls = stage.polls + 1]
                  IN  Reset(backoff(pollInt, stage.errors + 1))
       IN  stage' = IF stage.conf # stage.pollInt
                    THEN Ticked(stage.conf, Seconds(stage.conf))
                    ELSE Ticked(stage.pollInt, stage.period)
    /\ UNCHANGED <<scanVars, ruleT, sideT, cm, yc>>

\* The full ticker fires: doFull runs, the poll ticker is left alone.
FullTick ==
    /\ ~stage.panicked /\ stage.polled # "full"
    /\ stage' = [stage EXCEPT !.polled = "full"]
    /\ UNCHANGED <<scanVars, ruleT, sideT, cm, yc>>

\* notifyConf stores a configuration with another PollInterval.
PollIntervalChanges(s) ==
    /\ ~stage.panicked /\ s # stage.conf
    /\ stage' = [stage EXCEPT !.conf = s]
    /\ UNCHANGED <<scanVars, ruleT, sideT, cm, yc>>

LoopNext ==
    \/ \E ok \in BOOLEAN : PollTick(ok)
    \/ FullTick
    \/ \E s \in PollSeconds : PollIntervalChanges(s)

SpecLoop == LoopInit /\ [][LoopNext]_vars

\* C22: after the n-th consecutive failed poll the next poll is postponed by
\* pollInterval * n, and the first successful poll restores the delay to
\* pollInterval and resets the error count to zero.
C22_AdditiveBackoff ==
    /\ stage.polled = "error" =>
          ~stage.panicked /\ stage.errors = stage.failed
             /\ stage.period = Seconds(stage.pollInt * stage.failed)
    /\ stage.polled = "ok" =>
          stage.errors = 0 /\ stage.period = Seconds(stage.pollInt)


(***************************************************************************)
(* Part 18.  The Weighter: the image map its queries keep, the whitelist,   *)
(* the weighted index makeProfileWeights builds for a profile, and draws.   *)
(***************************************************************************)

\* Images (merged rows), writes of the Merger to the merged table, runs of
\* the Weighter and configuration changes in one behaviour.
MaxImages == 2
MaxMergedWrites == 2
MaxWeighRuns == 3
MaxProfileChanges == 1

ImageIds == 1..MaxImages

\* The tag lists the Merger stores with a merged row.
MergedTagLists == {<<1>>, <<2>>, <<3>>, <<1, 3>>}

\* The profile configured (ConfMakeTagWeights sorts the weights by tag):
\* every one of 1 and 3; any of 1 and 2; 1 but not 3, with a negative weight.
WeighProfiles ==
    { [any |-> <<>>, all |-> <<1, 3>>, none |-> <<>>,
       weights |-> <<[Tag |-> 1, Weight |-> 3]>>],
      [any |-> <<1, 2>>, all |-> <<>>, none |-> <<>>,
       weights |-> <<[Tag |-> 1, Weight |-> 3], [Tag |-> 2, Weight |-> 1]>>],
      [any |-> <<1>>, all |-> <<>>, none |-> <<3>>,
       weights |-> <<[Tag |-> 1, Weight |-> 2], [Tag |-> 3, Weight |-> -2]>>] }

\* The profile's Matches, as yconfConvert builds it with ConfMakeTagRule.
Matches(prof) == MakeTagRule(0, prof.any, prof.all, prof.none)

RECURSIVE GetWeightFrom(_, _, _, _, _)
\* The loop of TagWeights.GetWeight.
GetWeightFrom(tw, t, twLoc, tLoc, weight) ==
    IF twLoc > Len(tw) \/ tLoc > Len(t) THEN weight
    ELSE IF tw[twLoc].Tag > t[tLoc] THEN GetWeightFrom(tw, t, twLoc, tLoc + 1, weight)
    ELSE IF t[tLoc] > tw[twLoc].Tag THEN GetWeightFrom(tw, t, twLoc + 1, tLoc, weight)
    ELSE GetWeightFrom(tw, t, twLoc + 1, tLoc + 1, weight + tw[twLoc].Weight)

\* TagWeights.GetWeight: the total weight of the tags t.
GetWeight(tw, t) ==
    IF Len(tw) = 0 \/ Len(t) = 0 THEN 0 ELSE GetWeightFrom(tw, t, 1, 1, 0)

\* makeWhitelist: every tag of the profile's weights, fixed.
makeWhitelist(prof) == Fix([i \in DOMAIN prof.weights |-> prof.weights[i].Tag])

NoImage == [present |-> FALSE, Tags |-> <<>>, seen |-> FALSE]
NoRow == [present |-> FALSE, tags |-> <<>>, enabled |-> FALSE, recent |-> FALSE]

RECURSIVE fullRows(_, _, _, _)
\* The loop of Weighter.fullQuery over the rows of "full", the enabled rows:
\* a row that passes the whitelist is created or updated and marked seen.
fullRows(images, rows, wl, id) ==
    IF id > MaxImages THEN images
    ELSE fullRows(IF rows[id].present /\ rows[id].enabled
                     /\ Contains(Fix(rows[id].tags), wl)
                  THEN [images EXCEPT ![id] = [present |-> TRUE,
                                               Tags |-> Fix(rows[id].tags),
                                               seen |-> TRUE]]
                  ELSE images,
                  rows, wl, id + 1)

\* Weighter.fullQuery: the loop, then every image the loop did not see is
\* removed, unless the map was empty when the query began.
Weighter_fullQuery(images, rows, wl) ==
    LET first == \A id \in ImageIds : ~images[id].present
        Swept(seen) ==
            [id \in ImageIds |->
                IF seen[id].present /\ (first \/ seen[id].seen)
                THEN [seen[id] EXCEPT !.seen = FALSE]
                ELSE NoImage]
    IN  Swept(fullRows(images, rows, wl, 1))

\* One row of Weighter.pollQuery's loop.
Weighter_pollRow(images, id, row, wl) ==
    LET tgs == Fix(row.tags)
    IN  IF ~images[id].present
        THEN IF ~row.enabled \/ ~Contains(tgs, wl) THEN images
             ELSE [images EXCEPT ![id] = [present |-> TRUE, Tags |-> tgs, seen |-> FALSE]]
        ELSE IF ~row.enabled THEN [images EXCEPT ![id] = NoImage]
        ELSE IF ~TagsEqual(tgs, images[id].Tags)
             THEN [images EXCEPT ![id].Tags = tgs]
             ELSE images

RECURSIVE Weighter_pollQuery(_, _, _, _)
\* Weighter.pollQuery: the rows of "poll", those updated inside the window.
Weighter_pollQuery(images, rows, wl, id) ==
    IF id > MaxImages THEN images
    ELSE Weighter_pollQuery(IF rows[id].present /\ rows[id].recent
                            THEN Weighter_pollRow(images, id, rows[id], wl)
                            ELSE images,
                            rows, wl, id + 1)

\* The weight makeProfileWeights files an image under, 0 when it is left out.
FiledWeight(prof, img) ==
    IF ~img.present \/ ~Give(Matches(prof), img.Tags) THEN 0
    ELSE IF GetWeight(prof.weights, img.Tags) < 1 THEN 0
    ELSE GetWeight(prof.weights, img.Tags)

\* tpMap[pName]: the weights that have images, and the images of a weight.
FiledWeights(prof, images) == {FiledWeight(prof, images[id]) : id \in ImageIds} \ {0}
FiledIds(prof, images, w) ==
    LET S == {id \in ImageIds : FiledWeight(prof, images[id]) = w}
    IN  CHOOSE s \in MapOrders(S) : \A i, j \in DOMAIN s : i < j => s[i] < s[j]

RECURSIVE WeightLists(_, _, _, _)
\* The loop over weightMap in the order ord of the range: one weightList per
\* weight, each starting where the one before ended.
WeightLists(prof, images, ord, start) ==
    IF ord = <<>> THEN <<>>
    ELSE <<[Weight |-> Head(ord), Start |-> start,
            IDs |-> FiledIds(prof, images, Head(ord))]>>
         \o WeightLists(prof, images, Tail(ord), start + Head(ord))

RECURSIVE SumSeq(_)
SumSeq(s) == IF s = <<>> THEN 0 ELSE Head(s) + SumSeq(Tail(s))

\* Weighter.makeProfileWeights: the profile's new cacheProfile.
makeProfileWeights(prof, images, ord) ==
    [prof |-> prof, weights |-> WeightLists(prof, images, ord, 0), maxRoll |-> SumSeq(ord)]

RECURSIVE PickList(_, _, _)
\* The inner loop of getRandomProfile: the first weightList that
\* wl.Weight + wl.Start < weight does not skip; 0 when every one is skipped.
PickList(weights, roll, k) ==
    IF k > Len(weights) THEN 0
    ELSE IF weights[k].Weight + weights[k].Start < roll THEN PickList(weights, roll, k + 1)
    ELSE k

\* stage: the merged table, the Weighter's profile and whitelist, its image
\* map, the profile's cacheProfile, and the last draw.  New has loaded the
\* configuration and run doFull on a table with no rows yet.
WeighInit ==
    /\ \E prof \in WeighProfiles :
          stage = [rows |-> [id \in ImageIds |-> NoRow],
                   co |-> prof, white |-> makeWhitelist(prof),
                   images |-> [id \in ImageIds |-> NoImage],
                   cp |-> makeProfileWeights(prof, [id \in ImageIds |-> NoImage], <<>>),
                   drawn |-> [done |-> FALSE, roll |-> 0, list |-> 0, id |-> 0],
                   polled |-> FALSE,
                   writes |-> 0, runs |-> 0, changes |-> 0]
    /\ RuleParked /\ SideParked /\ ScanParked
    /\ imgcache = "none" /\ last = "none" /\ cm = "none" /\ yc = "none"

WeighQuiet == UNCHANGED <<scanVars, ruleT, sideT, cm, yc>>

\* The Merger inserts a merged row, or changes the tags or the enabled column
\* of one; its updated time moves into the poll window.
MergedWrite(id, tgs, enabled) ==
    /\ stage.writes < MaxMergedWrites
    /\ IF stage.rows[id].present
       THEN tgs # stage.rows[id].tags \/ enabled # stage.rows[id].enabled
       ELSE enabled
    /\ stage' = [stage EXCEPT !.rows[id] = [present |-> TRUE, tags |-> tgs,
                                            enabled |-> enabled, recent |-> TRUE],
                              !.writes = stage.writes + 1]
    /\ WeighQuiet

\* The poll window passes over the rows updated so far.
MergedWindowPasses ==
    /\ \E id \in ImageIds : stage.rows[id].recent
    /\ stage' = [stage EXCEPT !.rows = [id \in ImageIds |->
                                           [stage.rows[id] EXCEPT !.recent = FALSE]]]
    /\ WeighQuiet

\* Weighter.doFull: fullQuery, then makeProfileWeights.
WeighFull ==
    /\ stage.runs < MaxWeighRuns
    /\ \E imgs \in {Weighter_fullQuery(stage.images, stage.rows, stage.white)} :
       \E ord \in MapOrders(FiledWeights(stage.co, imgs)) :
          stage' = [stage EXCEPT !.images = imgs,
                                 !.cp = makeProfileWeights(stage.co, imgs, ord),
                                 !.drawn.done = FALSE, !.polled = FALSE,
                                 !.runs = stage.runs + 1]
    /\ WeighQuiet

\* Weighter.doPoll: pollQuery, then makeProfileWeights when it changed the map.
WeighPoll ==
    /\ stage.runs < MaxWeighRuns
    /\ \E imgs \in {Weighter_pollQuery(stage.images, stage.rows, stage.white, 1)} :
          IF imgs = stage.images
          THEN stage' = [stage EXCEPT !.polled = TRUE, !.runs = stage.runs + 1]
          ELSE \E ord \in MapOrders(FiledWeights(stage.co, imgs)) :
                  stage' = [stage EXCEPT !.images = imgs,
                                         !.cp = makeProfileWeights(stage.co, imgs, ord),
                                         !.drawn.done = FALSE, !.polled = TRUE,
                                         !.runs = stage.runs + 1]
    /\ WeighQuiet

\* Weighter.notifyConf with another profile: makeWhitelist runs before the
\* new configuration is stored, on the one getConf still returns; the full
\* it starts is WeighFull.
ProfileChanges(prof) ==
    /\ stage.changes < MaxProfileChanges /\ prof # stage.co
    /\ stage' = [stage EXCEPT !.white = makeWhitelist(stage.co), !.co = prof,
                              !.changes = stage.changes + 1]
    /\ WeighQuiet

\* wProfile.Get(1) on a profile with images: getRandomProfile with the roll
\* Intn(maxRoll) gave and the position pick Intn(len(IDs)) gave.
Draw(roll, pick) ==
    /\ stage.cp.maxRoll > 0 /\ roll < stage.cp.maxRoll
    /\ \E k \in {PickList(stage.cp.weights, roll, 1)} :
          /\ k > 0 /\ pick <= Len(stage.cp.weights[k].IDs)
          /\ stage' = [stage EXCEPT !.drawn = [done |-> TRUE, roll |-> roll, list |-> k,
                                               id |-> stage.cp.weights[k].IDs[pick]]]
    /\ WeighQuiet

WeighNext ==
    \/ \E id \in ImageIds, tgs \in MergedTagLists, enabled \in BOOLEAN :
          MergedWrite(id, tgs, enabled)
    \/ MergedWindowPasses
    \/ WeighFull
    \/ WeighPoll
    \/ \E prof \in WeighProfiles : ProfileChanges(prof)
    \/ \E roll \in 0..4, pick \in ImageIds : Draw(roll, pick)

SpecWeigh == WeighInit /\ [][WeighNext]_vars

\* The weightLists of the profile's index, and the images filed in them.
IndexLists == {stage.cp.weights[k] : k \in DOMAIN stage.cp.weights}
IndexIds == UNION {TagSet(wl.IDs) : wl \in IndexLists}

RECURSIVE WeightOver(_, _)
\* The sum of the profile's weights over the tags of the set S.
WeightOver(tw, S) ==
    IF tw = <<>> THEN 0
    ELSE (IF Head(tw).Tag \in S THEN Head(tw).Weight ELSE 0) + WeightOver(Tail(tw), S)

\* C23: for every image in the profile's weighted index, the profile's match
\* rule fires on the image's tags under the Any/All/None reading and the sum
\* of the profile's weights over the image's tags is at least 1.
C23_IndexedImagesMatch ==
    \A id \in IndexIds :
       /\ stage.images[id].present
       /\ Fires([any |-> stage.cp.prof.any, all |-> stage.cp.prof.all,
                 none |-> stage.cp.prof.none, set |-> stage.images[id].Tags])
       /\ WeightOver(stage.cp.prof.weights, TagSet(stage.images[id].Tags)) >= 1

\* C24: a draw with roll r in [0, maxRoll) returns an ID of the one
\* weightList whose range [Start, Start + Weight) contains r.
C24_RollFallsInList ==
    stage.drawn.done =>
       /\ stage.cp.weights[stage.drawn.list].Start <= stage.drawn.roll
       /\ stage.drawn.roll < stage.cp.weights[stage.drawn.list].Start
                               + stage.cp.weights[stage.drawn.list].Weight

\* C25: the Weighter's image map holds no image whose tags share no tag with
\* the whitelist, images whose tags a poll changed included.
C25_ImagesMeetWhitelist ==
    \A id \in ImageIds :
       stage.images[id].present =>
          TagSet(stage.images[id].Tags) \cap TagSet(stage.white) # {}


(***************************************************************************)
(* Part 19.  The swap of the profiles map against draws on handles: the     *)
(* writer holds the map's lock from installing the new map until it has     *)
(* closed the cacheProfiles it replaced; a Get probes its cacheProfile's    *)
(* closed flag without the lock and takes the read lock only to re-resolve. *)
(***************************************************************************)

\* Calls of Get in one behaviour (swaps are bounded by MaxSwaps).
MaxGets == 3

NoGet == [phase |-> "none", afterSwap |-> FALSE, stale |-> FALSE, startGen |-> 0,
          inMap |-> FALSE, cpGen |-> 0, err |-> "nil", ids |-> FALSE]

\* The Weighter after New: the map holds the profile's first cacheProfile.
SwapInit ==
    /\ \E roll \in {0, 3} :
          stage = [gen |-> 0, present |-> TRUE, maxRoll |-> roll, closedGens |-> {},
                   swap |-> "idle", oldGen |-> 0, oldPresent |-> FALSE,
                   handle |-> [out |-> FALSE, gen |-> 0, maxRoll |-> 0],
                   get |-> NoGet, gets |-> 0]
    /\ RuleParked /\ SideParked /\ ScanParked
    /\ imgcache = "none" /\ last = "none" /\ cm = "none" /\ yc = "none"

SwapQuiet == UNCHANGED <<scanVars, ruleT, sideT, cm, yc>>

\* Weighter.GetProfile, under the read lock: a handle on the map's cacheProfile.
HandOut ==
    /\ stage.swap = "idle" /\ stage.present /\ ~stage.handle.out
    /\ stage' = [stage EXCEPT !.handle = [out |-> TRUE, gen |-> stage.gen,
                                          maxRoll |-> stage.maxRoll]]
    /\ SwapQuiet

\* makeProfileWeights takes the lock and installs the new map: the profile's
\* new cacheProfile when it is still configured.
SwapInstall(present, roll) ==
    /\ stage.swap = "idle" /\ stage.gen < MaxSwaps
    /\ present \/ roll = 0
    /\ stage' = [stage EXCEPT !.swap = "installed", !.oldGen = stage.gen,
                              !.oldPresent = stage.present,
                              !.gen = stage.gen + 1, !.present = present,
                              !.maxRoll = roll]
    /\ SwapQuiet

\* makeProfileWeights closes the cacheProfiles of the old map and returns,
\* releasing the lock.
SwapClose ==
    /\ stage.swap = "installed"
    /\ stage' = [stage EXCEPT !.swap = "idle",
                              !.closedGens = IF stage.oldPresent
                                             THEN stage.closedGens \cup {stage.oldGen}
                                             ELSE stage.closedGens]
    /\ SwapQuiet

\* wProfile.Get begins: loadCP.  The probe of the closed flag needs no lock;
\* re-resolving waits for the read lock.
GetLoad ==
    /\ stage.handle.out /\ stage.get.phase # "loaded" /\ stage.gets < MaxGets
    /\ stage.handle.gen \notin stage.closedGens \/ stage.swap = "idle"
    /\ \E l \in {wProfile_loadCP(stage)} :
          stage' = [stage EXCEPT
                      !.handle = IF l.err = "nil" THEN l.cp ELSE stage.handle,
                      !.get = [phase |-> "loaded", afterSwap |-> stage.swap = "idle",
                               stale |-> stage.handle.gen # stage.gen,
                               startGen |-> stage.gen, inMap |-> stage.present,
                               cpGen |-> l.cp.gen, err |-> l.err, ids |-> FALSE],
                      !.gets = stage.gets + 1]
    /\ SwapQuiet

\* wProfile.Get ends: the draw from the cacheProfile loadCP returned, or the
\* error.
GetDraw ==
    /\ stage.get.phase = "loaded"
    /\ stage' = [stage EXCEPT !.get.phase = "done",
                              !.get.ids = stage.get.err = "nil"
                                             /\ stage.handle.maxRoll > 0]
    /\ SwapQuiet

SwapNext ==
    \/ HandOut
    \/ \E present \in BOOLEAN, roll \in {0, 3} : SwapInstall(present, roll)
    \/ SwapClose
    \/ GetLoad
    \/ GetDraw

SpecSwap == SwapInit /\ [][SwapNext]_vars

\* C26: a Get that starts after a swap of the profiles map has completed, on
\* a handle given out before it, finds its cacheProfile closed, re-resolves
\* the name through the current map and draws from the cacheProfile installed
\* there, never from a replaced one.
C26_GetAfterSwapIsFresh ==
    stage.get.phase # "none" /\ stage.get.afterSwap =>
       /\ stage.get.err = "nil" => stage.get.cpGen = stage.get.startGen
       /\ stage.get.inMap => stage.get.err = "nil"
       /\ stage.get.ids => stage.get.cpGen = stage.get.startGen

\* C26 witness: a Get on a stale handle, begun after the swap completed, drew
\* from the cacheProfile the swap installed.
C26_StaleHandleDrewFresh ==
    /\ stage.get.phase = "done" /\ stage.get.afterSwap /\ stage.get.stale
    /\ stage.get.ids /\ stage.get.cpGen = stage.get.startGen /\ stage.get.startGen > 0


(***************************************************************************)
(* Part 20.  The scheduler of the base scans: makeCheckIntervals builds     *)
(* one checkInterval per duration, loopy fires the first one on each tick   *)
(* and setCheckIntervals re-arms and re-sorts them.  Time is counted in     *)
(* milliseconds scaled down: a check interval is ShortInt or LongInt units  *)
(* and the "fire right away" delay of a skipped check is one unit.          *)
(***************************************************************************)

\* The clock reading up to which ticks are followed.
MaxNow == 60
ShortInt == 10
LongInt == 15
\* How much later than asked a tick may be delivered.
MaxLate == 2
SchedBases == {1, 2, 3}
CheckInts == {ShortInt, LongInt}

\* All orders in which a range over the set s may visit it.
RECURSIVE OrdersOf(_)
OrdersOf(s) ==
    IF s = {} THEN {<<>>}
    ELSE UNION {{<<x>> \o o : o \in OrdersOf(s \ {x})} : x \in s}

\* "ci.bases = append(ci.bases, bc.Base)" inside "for _, ci := range checks":
\* ci is a copy of checks[i], so the slice of checks[i] keeps its one base.
AppendToRangeCopy(checks, i, base) == checks

\* What the comment on that line intends: the base joins checks[i].
AppendToEntry(checks, i, base) ==
    [checks EXCEPT ![i].bases = Append(checks[i].bases, base)]

RECURSIVE intervalsOf(_, _, _)
intervalsOf(co, order, checks) ==
    IF order = <<>> THEN checks
    ELSE LET base == Head(order)
             same == {i \in 1..Len(checks) : checks[i].checkInt = co[base]}
         IN  IF same # {}
             THEN intervalsOf(co, Tail(order),
                              AppendToRangeCopy(checks, CHOOSE i \in same : TRUE, base))
             ELSE intervalsOf(co, Tail(order),
                              Append(checks, [checkInt |-> co[base], bases |-> <<base>>,
                                              nextRun |-> 0, nextDur |-> 0]))

\* sort.Slice by nextDur: any order of the entries that is sorted.
sortedByDur(checks) ==
    {[i \in 1..Len(checks) |-> checks[o[i]]] : o \in
        {o \in OrdersOf(1..Len(checks)) :
            \A i \in 1..(Len(checks) - 1) :
                checks[o[i]].nextDur <= checks[o[i + 1]].nextDur}}

\* makeCheckIntervals at clock reading now, ranging over the bases in order.
makeCheckIntervals(co, order, now) ==
    sortedByDur([i \in 1..Len(intervalsOf(co, order, <<>>)) |->
                    [intervalsOf(co, order, <<>>)[i] EXCEPT
                        !.nextRun = now + intervalsOf(co, order, <<>>)[i].checkInt,
                        !.nextDur = intervalsOf(co, order, <<>>)[i].checkInt]])

\* setCheckIntervals at clock reading now.
setCheckIntervals(checks, now) ==
    sortedByDur([i \in 1..Len(checks) |->
        IF i = 1
        THEN IF now > checks[1].nextRun
             THEN [checks[1] EXCEPT !.nextRun = now + checks[1].checkInt,
                                    !.nextDur = checks[1].checkInt]
             ELSE checks[1]
        ELSE IF now > checks[i].nextRun
             THEN [checks[i] EXCEPT !.nextRun = now + 1, !.nextDur = 1]
             ELSE [checks[i] EXCEPT !.nextDur = checks[i].nextRun - now]])

SeqRange(s) == {s[i] : i \in 1..Len(s)}

\* loopy starts: the configuration holds at least one base, each with its
\* check interval.
SchedInit ==
    /\ \E bases \in (SUBSET SchedBases) \ {{}} : \E co \in [bases -> CheckInts] :
       \E order \in OrdersOf(bases) : \E checks \in makeCheckIntervals(co, order, 0) :
          stage = [co |-> co, checks |-> checks, now |-> 0, ticks |-> 0,
                   fired |-> [checkInt |-> 0, bases |-> {}]]
    /\ RuleParked /\ SideParked /\ ScanParked
    /\ imgcache = "none" /\ last = "none" /\ cm = "none" /\ yc = "none"

\* loopy, case <-baseTick.C: the tick asked for after checks[0].nextDur is
\* delivered; a checkBase is started for each base of checks[0], the checks
\* are re-armed and the ticker reset.
BaseTick(late) ==
    /\ stage.checks[1].nextRun + late <= MaxNow
    /\ \A i \in 1..Len(stage.checks) :
          stage.checks[i].nextRun # stage.checks[1].nextRun + late
    /\ \E checks \in setCheckIntervals(stage.checks, stage.checks[1].nextRun + late) :
          stage' = [stage EXCEPT
                      !.now = stage.checks[1].nextRun + late,
                      !.checks = checks,
                      !.ticks = stage.ticks + 1,
                      !.fired = [checkInt |-> stage.checks[1].checkInt,
                                 bases |-> SeqRange(stage.checks[1].bases)]]
    /\ UNCHANGED <<scanVars, ruleT, sideT, cm, yc>>

SchedNext == \E late \in 1..MaxLate : BaseTick(late)

SpecSched == SchedInit /\ [][SchedNext]_vars

\* C27: the bases that share a check interval are in one checkInterval, every
\* firing of it starts a scan for each of them, and every configured base is
\* in some checkInterval.
C27_SharedIntervalFiresAll ==
    stage.ticks > 0 =>
       /\ \A b \in DOMAIN stage.co : \E i \in 1..Len(stage.checks) :
             /\ stage.checks[i].checkInt = stage.co[b]
             /\ b \in SeqRange(stage.checks[i].bases)
       /\ stage.fired.bases =
             {b \in DOMAIN stage.co : stage.co[b] = stage.fired.checkInt}


(***************************************************************************)
(* Part 21.  A partial scan over a directory whose modification time is     *)
(* the cached one.                                                          *)
(***************************************************************************)

\* The pathCache as checkPathPartial leaves an unchanged path: the loop of
\* the pass on the path, on every file, and on every sidecar that was read.
MarkedSeen(pc, loop) ==
    [pc EXCEPT !.loop = loop,
               !.Files = [f \in DOMAIN pc.Files |->
                            [pc.Files[f] EXCEPT
                               !.loopF = loop,
                               !.loopS = IF pc.Files[f].SideTS # emptyTime
                                         THEN loop ELSE @]]]

\* The row of a path and the rows of the files under it.
RowsUnder(st, path) ==
    IF path \in DOMAIN st.paths
    THEN <<st.paths[path],
           [k \in {j \in DOMAIN st.files : j[1] = st.paths[path].id} |-> st.files[k]]>>
    ELSE <<>>

\* The directory is cached and its modification time is the cached one.
UnchangedDir(path) ==
    /\ path \in DOMAIN bc.Paths /\ path \in DOMAIN disk.dirs
    /\ bc.Paths[path].Changed = disk.dirs[path]

\* A partial scan of goroutine g returns in this step, its walk completed.
PartialOver(g) == PassEnds(g) /\ ~last'.full /\ last'.result \in {"done", "store"}

\* C28: a partial scan leaves the pathCache of a directory whose modification
\* time equals the cached one as it was, but for the loop of the pass on the
\* path, its files and its sidecars (nothing pending for the store, so no
\* transaction for it), and leaves its rows as they were, also when a file in
\* it was touched.
C28_UnchangedDirOnlyMarked ==
    [][\A g \in Goroutines :
          PartialOver(g) /\ UnchangedDir("a")
             => /\ "a" \in DOMAIN bc'.Paths
                /\ bc'.Paths["a"] = MarkedSeen(bc.Paths["a"], bc'.loop)
                /\ RowsUnder(store', "a") = RowsUnder(store, "a")]_vars


\* C29: a pass in which the one failure is confined to a file or a sidecar
\* (a sidecar that cannot be opened, an image that cannot be encoded) is not
\* aborted: every image of the tree is observed in it, and the store sync and
\* the cache sweep run.
C29_FileFailureNeverAborts ==
    last.fault.kind \in {"open", "encode"} /\ last.result \in {"walk", "store", "done"}
       => /\ last.result = "done"
          /\ \A f \in ImageNames \cap DOMAIN disk.files :
                /\ <<"a", f>> \in CachedFiles
                /\ FileCacheOf(<<"a", f>>).loopF = bc.loop


(***************************************************************************)
(* Part 22.  A reload of the configuration against the scans of a base:     *)
(* loadConf binds the baseCache to the base's path and tags when the        *)
(* program starts, loopy builds its checkIntervals once, and notifyConf     *)
(* stores the reloaded configuration.                                       *)
(***************************************************************************)

\* Reloads in one behaviour.
MaxConfChanges == 2
BasePaths == {"/p1", "/p2"}
BaseTagSets == {<<>>, <<BaseTag>>}
BaseConfs == [Path : BasePaths, Tags : BaseTagSets, CheckInt : CheckInts]

\* New: loadConf binds the baseCache of base 1 to the base's path and tags,
\* every base is forced to a full first scan, and loopy makes its checks.
ReconfInit ==
    /\ \E cb \in BaseConfs : \E checks \in makeCheckIntervals([b \in {1} |-> cb.CheckInt],
                                                               <<1>>, 0) :
          stage = [co |-> cb,
                   bc |-> [path |-> cb.Path, Tags |-> cb.Tags, force |-> TRUE,
                           root |-> FALSE],
                   checks |-> checks, now |-> 0, changes |-> 0, since |-> 0,
                   rebind |-> FALSE,
                   fired |-> [path |-> "", Tags |-> <<>>, full |-> FALSE, rearm |-> 0]]
    /\ RuleParked /\ SideParked /\ ScanParked
    /\ imgcache = "none" /\ last = "none" /\ cm = "none" /\ yc = "none"

\* notifyConf for a reloaded configuration that changes base 1: checkConf,
\* then ip.co.Store(co) and the update bits; the baseCache and loopy's checks
\* are not touched.
ReconfNotify(cb) ==
    /\ stage.changes < MaxConfChanges
    /\ cb # stage.co
    /\ stage' = [stage EXCEPT !.co = cb, !.changes = stage.changes + 1, !.since = 0,
                              !.rebind = cb.Path # stage.co.Path
                                         \/ ~TagsEqual(cb.Tags, stage.co.Tags)]
    /\ UNCHANGED <<scanVars, ruleT, sideT, cm, yc>>

\* loopy's tick and the checkBase it starts for base 1: the scan reads the
\* tree bound to the baseCache, with the baseCache's tags, in full when forced
\* or when the cache has no "." path; the check is re-armed.
ReconfTick(late) ==
    /\ stage.checks[1].nextRun + late <= MaxNow
    /\ \E checks \in setCheckIntervals(stage.checks, stage.checks[1].nextRun + late) :
          stage' = [stage EXCEPT
                      !.now = stage.checks[1].nextRun + late,
                      !.checks = checks,
                      !.bc = [stage.bc EXCEPT !.force = FALSE, !.root = TRUE],
                      !.since = IF stage.since < 2 THEN stage.since + 1 ELSE 2,
                      !.fired = [path |-> stage.bc.path, Tags |-> stage.bc.Tags,
                                 full |-> stage.bc.force \/ ~stage.bc.root,
                                 rearm |-> checks[1].nextDur]]
    /\ UNCHANGED <<scanVars, ruleT, sideT, cm, yc>>

ReconfNext ==
    \/ \E cb \in BaseConfs : ReconfNotify(cb)
    \/ \E late \in 1..MaxLate : ReconfTick(late)

SpecReconf == ReconfInit /\ [][ReconfNext]_vars

\* C30: a scan of the base that runs after a reload changed the base reads
\* the configured path with the configured tags, the first such scan is full
\* when the path or the tags changed, and the check is re-armed with the
\* configured check interval.
C30_ScansUseNewConf ==
    stage.changes > 0 /\ stage.since >= 1 =>
       /\ stage.fired.path = stage.co.Path
       /\ TagsEqual(stage.fired.Tags, stage.co.Tags)
       /\ stage.since = 1 /\ stage.rebind => stage.fired.full
       /\ stage.fired.rearm = stage.co.CheckInt


(***************************************************************************)
(* Part 23.  The store sync over paths that a pass did not observe, and     *)
(* passes over a tree that lost a directory.                                *)
(***************************************************************************)

\* C31: after a pass whose store sync ran to its end, every PathCache that
\* the pass did not observe and that has a non-zero id is marked disabled,
\* and the row with that id is disabled in the store.
C31_UnseenPathDisabled ==
    last.result = "done" =>
       \A p \in DOMAIN bc.Paths :
          bc.Paths[p].loop # bc.loop /\ bc.Paths[p].id # 0
             => /\ bc.Paths[p].disabled
                /\ \A r \in DOMAIN store.paths :
                      store.paths[r].id = bc.Paths[p].id => ~store.paths[r].enabled


(***************************************************************************)
(* Part 24.  The Merger's records that lose their last file, its failed     *)
(* polls, and its transactions.                                             *)
(***************************************************************************)

\* The cache a run of the Merger folds: what pollQuery, or selectMerged and
\* fullQuery, leave of the cache the run starts from.
FoldedCache(name) ==
    IF name = "poll" THEN pollQuery(cm.ca, cm.files, 1)
    ELSE fullLoaded(cm.ca, cm.files, cm.merged, cm.selectAll)

\* The records the run named `name` folds that have an id and no file.
Orphaned(name) ==
    LET Of(ca) == {h \in MergeHashes :
                      /\ ca.hashes[h].present
                      /\ name = "poll" => ca.pc[h].present /\ ca.pc[h].alias
                      /\ ca.hashes[h].hc.ID # 0
                      /\ DOMAIN ca.hashes[h].hc.Files = {}}
    IN  Of(FoldedCache(name))

\* The database errors a run can meet once its transaction has begun.
TxFaults == {f \in MergeFaults : f.at \in {"none", "exec", "commit"}}

\* This step is the run `name` of the Merger, meeting `fault` and ranging in
\* the order `ord`.
MergeRunIs(name, fault, ord) ==
    LET Same(r) == cm'.ca = r.ca /\ cm'.merged = r.merged /\ cm'.ok = ~r.err
    IN  /\ cm.last # "poll-full" /\ cm'.last = name /\ cm'.runs = cm.runs + 1
        /\ IF name = "poll"
           THEN Same(doPoll(cm.ca, cm.files, cm.merged, fault, ord))
           ELSE Same(doFull(cm.ca, cm.files, cm.merged, cm.selectAll, fault, ord))

\* The orders in which the run `name` can range over what it folds.
MergeOrders(name) ==
    IF name = "poll" THEN MapOrders(ChangedKeys(FoldedCache(name)))
    ELSE MapOrders(MapKeys(FoldedCache(name)))

\* C32: a record that the fold of a run leaves with an id and no file is
\* disabled in the merged table and gone from the map when the run's
\* transaction commits, and is still in the map when the transaction, once
\* begun, does not commit.
C32_EvictOnCommit ==
    [][\A name \in {"full", "poll"}, fault \in TxFaults :
          \A ord \in MergeOrders(name) :
             MergeRunIs(name, fault, ord) =>
                \A h \in Orphaned(name) :
                   IF cm'.ok
                   THEN ~cm'.ca.hashes[h].present /\ ~cm'.merged[h].enabled
                   ELSE cm'.ca.hashes[h].present]_vars


\* C33: once the Scanner's close has returned, the connection pool that was
\* current at shutdown is closed.
C33_CloseClosesPool ==
    stage.kind = "imgproc" /\ stage.closed = 1 /\ stage.pool => ~stage.dbOpen


\* The rows of the store under the path: the path's row and its files' rows.
RowsEnabledUnder(st, path) ==
    /\ path \in DOMAIN st.paths
    /\ \/ st.paths[path].enabled
       \/ \E k \in DOMAIN st.files : k[1] = st.paths[path].id /\ st.files[k].enabled

\* C34: when directory "a" has rows in the store and is gone from the tree,
\* a pass in which nothing fails runs to completion, and the second such pass
\* in a row leaves the rows of "a" and of its files disabled and "a" out of
\* the cache.
C34_DeletedDirDisabled ==
    [][\A g \in Goroutines :
          /\ PassEnds(g) /\ last'.fault = NoFault
          /\ "a" \notin DOMAIN disk.dirs /\ "a" \in DOMAIN store.paths
          => /\ last'.result = "done"
             /\ last.result \in {"done", "walk", "store"} /\ last.fault = NoFault
                   => /\ ~RowsEnabledUnder(store', "a")
                      /\ "a" \notin DOMAIN bc'.Paths]_vars


\* The cached paths seen in the latest pass each have a row with the cached
\* id, and the files seen in it with tags to record each have an enabled row.
PendingCommitted(b, st) ==
    \A p \in DOMAIN b.Paths :
       b.Paths[p].loop = b.loop
          => /\ p \in DOMAIN st.paths
             /\ st.paths[p].id = b.Paths[p].id
             /\ \A f \in DOMAIN b.Paths[p].Files :
                   LET fc == b.Paths[p].Files[f]
                   IN  fc.loopF = b.loop /\ Len(fc.CTags) > 0 /\ ~fc.fileError
                          => /\ <<st.paths[p].id, f>> \in DOMAIN st.files
                             /\ st.files[<<st.paths[p].id, f>>].enabled

\* C35: the pass that follows a pass whose transaction failed, with the store
\* accepting every statement, runs to completion and leaves a row for every
\* path and every tagged file it has seen.
C35_RetryCommitsPending ==
    [][\A g \in Goroutines :
          /\ PassEnds(g) /\ last.result = "store" /\ last.fault.kind = "db"
          /\ last'.fault = NoFault
          => /\ last'.result = "done"
             /\ PendingCommitted(bc', store')]_vars



\* Every sidecar of directory "a" whose image is cached has its content's
\* tags recorded as the image's sidecar tags.
SidecarTagsCurrent(b, d) ==
    \A s \in SidecarNames \cap DOMAIN d.files :
       LET image == getFileType(s)[2]
       IN  "a" \in DOMAIN b.Paths /\ image \in DOMAIN b.Paths["a"].Files
              => TagsEqual(b.Paths["a"].Files[image].SideTG,
                           LoadTags(SidecarText(d.files[s].body)))

\* C36: the pass that follows a pass in which opening a sidecar failed, with
\* the tree untouched in between and nothing failing, leaves the recorded
\* sidecar tags of every cached file equal to its sidecar's content.
C36_SidecarReadAgain ==
    [][\A g \in Goroutines :
          /\ PassEnds(g) /\ last.result = "walk" /\ last.fault.kind = "open"
          /\ last'.fault = NoFault
          => SidecarTagsCurrent(bc', disk')]_vars



\* The rows of the files table that a step inserts or rewrites, left enabled.
RowsWritten(st, st2) ==
    {k \in DOMAIN st2.files :
        /\ st2.files[k].enabled
        /\ k \in DOMAIN st.files => st2.files[k] # st.files[k]}

\* C37: a pass that inserts or updates a file row with a content hash leaves a
\* completely written cache file for that hash in the cache directory.
C37_RowsHaveCacheFile ==
    [][\A g \in Goroutines :
          PassEnds(g)
          => \A k \in RowsWritten(store, store') :
                imgcache'[CacheName(store'.files[k].hash, "png")] = "valid"]_vars



\* The orders in which a poll from the state c can range over pollChanged,
\* and the poll the store answers without an error.
PollOrders(c) == MapOrders(ChangedKeys(pollQuery(c.ca, c.files, 1)))
PollAnswered(c, ord) == doPoll(c.ca, c.files, c.merged, NoMergeFault, ord)

\* A poll from the state c fails although the store answers every query and
\* accepts every statement, and leaves the cache as it found it: so does
\* every poll after it, for as long as the files table stays as it is.
PollStuck(c) ==
    \A ord \in PollOrders(c) :
       \E r \in {PollAnswered(c, ord)} : r.err /\ r.ca = c.ca

\* The states a full() from the state c can leave when the store answers
\* every query and accepts every statement.
FullAnswered(c) ==
    {[c EXCEPT !.ca = r.ca, !.merged = r.merged] :
        r \in {doFull(c.ca, c.files, c.merged, c.selectAll, NoMergeFault, ord) :
                 ord \in MapOrders(MapKeys(fullLoaded(c.ca, c.files, c.merged,
                                                      c.selectAll)))}}

\* C38: a poll that follows a failed poll, with the store answering every
\* query and accepting every statement, succeeds, or leaves the Merger in a
\* state from which a later poll can succeed, at the latest after a full().
C38_PollsRecover ==
    [][/\ cm.last = "poll" /\ ~cm.ok
       /\ cm'.last = "poll" /\ cm'.runs = cm.runs + 1 /\ cm'.faults = cm.faults
       => \/ cm'.ok
          \/ ~PollStuck(cm')
          \/ \E c \in FullAnswered(cm') : ~PollStuck(c)]_vars



\* C39: when a full() or a poll() of the Merger has returned, the transaction
\* it began, if it began one, has been committed or rolled back (a commit
\* that fails ends the transaction too).
C39_TransactionsEnded ==
    cm.last \in {"full", "poll"} => cm.tx # "open"



\* C40: a full load that runs after a change of the profile configuration
\* filters with the whitelist of the new configuration's weight maps.
C40_WhitelistOfNewConf ==
    [][WeighFull /\ stage.changes > 0
          => TagsEqual(stage.white, makeWhitelist(stage.co))]_vars

====
